---- MODULE Spec2Model ----
(***************************************************************************)
(* Static condensation (exposed/private dof splitting) of src/fem/ep.cpp:  *)
(* EPDoFs, ParEPDoFs, EPField, ParEPField, EPMatrix, ParEPMatrix.          *)
(* Floating point values are modelled as exact rationals <<num, den>>.     *)
(***************************************************************************)
EXTENDS Integers, Sequences, FiniteSets, TLC

(***************************************************************************)
(* Nullable pointers: << >> is NULL, <<v>> points to v.                    *)
(***************************************************************************)
NULL == << >>

Ptr(v) == <<v>>

Deref(p) == p[1]

(***************************************************************************)
(* C arrays: functions over 0..n-1.                                        *)
(***************************************************************************)
Arr(s) == [i \in 0..(Len(s) - 1) |-> s[i + 1]]

Size(a) == Cardinality(DOMAIN a)

Idx(n) == 0..(n - 1)

(***************************************************************************)
(* Exact rational arithmetic standing for the doubles of the program.      *)
(***************************************************************************)
\* the one value of x, computed down to its entries
Val(x) == {w \in {x} : w = w}

\* F applied to the value of x: a local variable initialised with x
Bind(x, F(_)) == CHOOSE r \in {F(v) : v \in Val(x)} : TRUE

Abs(n) == IF n < 0 THEN -n ELSE n

Gcd[a \in Nat, b \in Nat] == IF b = 0 THEN a ELSE Gcd[b, a % b]

\* the numbers: reduced fractions with a positive denominator
Rat == Int \X (Nat \ {0})

Q[n \in Int, d \in Int \ {0}] ==
  LET s == IF d < 0 THEN -1 ELSE 1
      g == Gcd[Abs(n), Abs(d)]
  IN  <<(s * n) \div g, (s * d) \div g>>

QI(n) == <<n, 1>>

QZero == <<0, 1>>

QOne == <<1, 1>>

QAdd[a \in Rat, b \in Rat] ==
  LET g == Gcd[a[2], b[2]]
  IN  Q[a[1] * (b[2] \div g) + b[1] * (a[2] \div g), (a[2] \div g) * b[2]]

QNeg[a \in Rat] == <<-a[1], a[2]>>

QSub[a \in Rat, b \in Rat] == QAdd[a, QNeg[b]]

QMul[a \in Rat, b \in Rat] ==
  LET g == Gcd[Abs(a[1]), b[2]]
      h == Gcd[Abs(b[1]), a[2]]
  IN  Q[(a[1] \div g) * (b[1] \div h), (a[2] \div h) * (b[2] \div g)]

\* a / b for b # 0
QDiv[a \in Rat, b \in Rat] == QMul[a, Q[b[2], b[1]]]

\* sum of f[lo] .. f[hi-1], by halves
RECURSIVE QSumTo(_, _, _)
QSumTo(f, lo, hi) ==
  IF hi <= lo THEN QZero
  ELSE IF hi = lo + 1 THEN f[lo]
  ELSE LET mid == (lo + hi) \div 2
       IN  QAdd[QSumTo(f, lo, mid), QSumTo(f, mid, hi)]

\* sum of f[0] .. f[n-1]
QSum(f) == QSumTo(f, 0, Size(f))

(***************************************************************************)
(* Dense vectors and matrices (mfem Vector, DenseMatrix).                  *)
(***************************************************************************)
ZeroMat(m, n) == [i \in Idx(m) |-> [j \in Idx(n) |-> QZero]]

\* A v for a matrix A of n columns
MatVec(A, n, v) ==
  Bind(<<A, v>>, LAMBDA p :
    [i \in DOMAIN p[1] |-> QSum([j \in Idx(n) |-> QMul[p[1][i][j], p[2][j]]])])

\* A^T v for a matrix A of n columns
MatTVec(A, n, v) ==
  Bind(<<A, v>>, LAMBDA p :
    [j \in Idx(n) |-> QSum([i \in Idx(Size(p[1])) |-> QMul[p[1][i][j], p[2][i]]])])

VecAdd(a, b) == [i \in DOMAIN a |-> QAdd[a[i], b[i]]]

VecSub(a, b) == [i \in DOMAIN a |-> QSub[a[i], b[i]]]

\* DenseMatrix::CopyMN(A, m, n, Aro, Aco): the m x n block of A at (Aro, Aco)
CopyMN(A, m, n, Aro, Aco) ==
  [i \in Idx(m) |-> [j \in Idx(n) |-> A[Aro + i][Aco + j]]]

(***************************************************************************)
(* Gauss-Jordan elimination with row pivoting on the augmented system      *)
(* [A | B] (A is n x n, B is n x k); the result is << >> when A is         *)
(* singular, else <<X>> with A X = B.                                      *)
(***************************************************************************)
\* one column of the elimination: << >> when column c has no pivot, else
\* <<W'>> with column c of W reduced to the unit vector
Eliminate(W, n, w, c) ==
  Bind({r \in c..(n - 1) : W[r][c] # QZero}, LAMBDA rows :
    IF rows = {} THEN << >>
    ELSE LET p == CHOOSE r \in rows : \A q \in rows : r <= q
         IN  Bind([j \in Idx(w) |-> QDiv[W[p][j], W[p][c]]], LAMBDA Nr :
               <<[r \in Idx(n) |->
                    IF r = c THEN Nr
                    ELSE LET src == IF r = p THEN W[c] ELSE W[r]
                         IN  [j \in Idx(w) |-> QSub[src[j], QMul[src[c], Nr[j]]]]]>>))

RECURSIVE GaussJordan(_, _, _, _)
GaussJordan(W, n, w, c) ==
  IF c = n THEN <<W>>
  ELSE Bind(Eliminate(W, n, w, c), LAMBDA E :
         IF E = << >> THEN << >> ELSE GaussJordan(E[1], n, w, c + 1))

SolveMat(A, n, B, k) ==
  Bind([i \in Idx(n) |-> [j \in Idx(n + k) |->
          IF j < n THEN A[i][j] ELSE B[i][j - n]]], LAMBDA W :
    Bind(GaussJordan(W, n, n + k, 0), LAMBDA R :
      IF R = << >> THEN << >>
      ELSE <<[i \in Idx(n) |-> [j \in Idx(k) |-> R[1][i][n + j]]]>>))

IdMat(n) == [i \in Idx(n) |-> [j \in Idx(n) |-> IF i = j THEN QOne ELSE QZero]]

Invertible(A, n) == SolveMat(A, n, IdMat(n), n) # << >>

InverseSkipped(A, n) == A

\* DenseMatrix::Inverse(): the inverse as a dense matrix (A is invertible)
Inverse(A, n) == SolveMat(A, n, IdMat(n), n)[1]

\* solution of A z = b for an invertible A
SolveVec(A, n, b) ==
  Bind(SolveMat(A, n, [i \in Idx(n) |-> [j \in Idx(1) |-> b[i]]], 1), LAMBDA X :
    [i \in Idx(n) |-> X[1][i][0]])

(***************************************************************************)
(* The finite element space consumed by EPDoFs: a mesh (elements, their    *)
(* vertices, edges with orientation, faces with orientation) and a         *)
(* collection giving the number of dofs on each geometry.                  *)
(***************************************************************************)
RefEdges(geom) ==
  CASE geom = "SEGMENT"     -> << >>
    [] geom = "TRIANGLE"    -> <<<<0, 1>>, <<1, 2>>, <<2, 0>>>>
    [] geom = "SQUARE"      -> <<<<0, 1>>, <<1, 2>>, <<2, 3>>, <<3, 0>>>>
    [] geom = "TETRAHEDRON" -> <<<<0, 1>>, <<0, 2>>, <<0, 3>>, <<1, 2>>, <<1, 3>>, <<2, 3>>>>

Lo(a, b) == IF a < b THEN a ELSE b

Hi(a, b) == IF a < b THEN b ELSE a

\* mesh->Dimension()
Dimension(mesh) ==
  CASE mesh.geom = "SEGMENT"     -> 1
    [] mesh.geom = "TRIANGLE"    -> 2
    [] mesh.geom = "SQUARE"      -> 2
    [] mesh.geom = "TETRAHEDRON" -> 3

\* mesh->GetNE()
GetNE(mesh) == Len(mesh.elems)

\* mesh->GetNV()
GetNV(mesh) == mesh.nv

\* the edges of the mesh as sorted vertex pairs
MeshEdges(mesh) ==
  {<<Lo(mesh.elems[e][r[1] + 1], mesh.elems[e][r[2] + 1]),
     Hi(mesh.elems[e][r[1] + 1], mesh.elems[e][r[2] + 1])>> :
       e \in 1..Len(mesh.elems),
       r \in {RefEdges(mesh.geom)[k] : k \in 1..Len(RefEdges(mesh.geom))}}

\* mesh->GetNEdges(): no edges are numbered in one dimension
GetNEdges(mesh) == IF Dimension(mesh) > 1 THEN Cardinality(MeshEdges(mesh)) ELSE 0

\* the number of an edge: its place among the sorted vertex pairs
EdgeId(mesh, a, b) ==
  Cardinality({p \in MeshEdges(mesh) :
                 p[1] < Lo(a, b) \/ (p[1] = Lo(a, b) /\ p[2] < Hi(a, b))})

\* mesh->GetElementVertices(elem, V)
GetElementVertices(mesh, elem) == Arr(mesh.elems[elem + 1])

\* mesh->GetElementEdges(elem, E, Eo): E
ElementEdgesE(mesh, elem) ==
  LET R == RefEdges(mesh.geom)
      v == mesh.elems[elem + 1]
  IN  [k \in Idx(Len(R)) |-> EdgeId(mesh, v[R[k + 1][1] + 1], v[R[k + 1][2] + 1])]

\* mesh->GetElementEdges(elem, E, Eo): Eo, +1 along the edge, -1 against it
ElementEdgesEo(mesh, elem) ==
  LET R == RefEdges(mesh.geom)
      v == mesh.elems[elem + 1]
  IN  [k \in Idx(Len(R)) |->
        IF v[R[k + 1][1] + 1] < v[R[k + 1][2] + 1] THEN 1 ELSE -1]

\* mesh->GetElementFaces(elem, F, Fo): F
ElementFacesF(mesh, elem) == Arr(mesh.faces[elem + 1])

\* mesh->GetElementFaces(elem, F, Fo): Fo
ElementFacesFo(mesh, elem) == Arr(mesh.faceOri[elem + 1])

\* mesh->GetNFaces()
GetNFaces(mesh) == mesh.nfaces

\* fec->DofForGeometry(geom)
DofForGeometry(fec, geom) == fec.dof[geom]

\* fec->HasFaceDofs(geom): the faces of a tetrahedron are triangles
HasFaceDofs(fec, geom) == DofForGeometry(fec, "TRIANGLE") > 0

\* fec->DofOrderForOrientation(Geometry::SEGMENT, Eo): the edge's dofs are
\* reversed on an edge taken against its direction, and negated as well by a
\* collection of tangential (sign carrying) elements
SegDofOrder(fec, ori) ==
  LET ne == DofForGeometry(fec, "SEGMENT")
  IN  [j \in Idx(ne) |->
        IF ori > 0 THEN j
        ELSE IF fec.signed THEN -1 - (ne - 1 - j)
        ELSE ne - 1 - j]

\* fec->DofOrderForOrientation(face geometry, Fo) for one dof a face: negated
\* on a face seen with odd orientation by a sign carrying collection
FaceDofOrder(fec, ori) ==
  [j \in Idx(DofForGeometry(fec, "TRIANGLE")) |->
     IF fec.signed /\ ori % 2 = 1 THEN -1 - j ELSE j]

\* the meshes of the model
MeshSeg2 ==
  [geom |-> "SEGMENT", nv |-> 3, elems |-> <<<<0, 1>>, <<1, 2>>>>,
   faces |-> <<<< >>, << >>>>, faceOri |-> <<<< >>, << >>>>, nfaces |-> 0]

MeshQuad1 ==
  [geom |-> "SQUARE", nv |-> 4, elems |-> <<<<0, 1, 2, 3>>>>,
   faces |-> <<<< >>>>, faceOri |-> <<<< >>>>, nfaces |-> 0]

MeshQuad2 ==
  [geom |-> "SQUARE", nv |-> 6, elems |-> <<<<0, 1, 4, 3>>, <<1, 2, 5, 4>>>>,
   faces |-> <<<< >>, << >>>>, faceOri |-> <<<< >>, << >>>>, nfaces |-> 0]

MeshTri2 ==
  [geom |-> "TRIANGLE", nv |-> 4, elems |-> <<<<0, 1, 2>>, <<2, 1, 3>>>>,
   faces |-> <<<< >>, << >>>>, faceOri |-> <<<< >>, << >>>>, nfaces |-> 0]

MeshTet2 ==
  [geom |-> "TETRAHEDRON", nv |-> 5, elems |-> <<<<0, 1, 2, 3>>, <<1, 2, 3, 4>>>>,
   faces |-> <<<<0, 1, 2, 3>>, <<4, 5, 6, 0>>>>,
   faceOri |-> <<<<0, 0, 0, 0>>, <<0, 0, 0, 1>>>>, nfaces |-> 7]

Meshes == {MeshSeg2, MeshQuad1, MeshQuad2, MeshTri2, MeshTet2}

Geoms == {"POINT", "SEGMENT", "TRIANGLE", "SQUARE", "TETRAHEDRON"}

\* dofs per geometry: vertex, edge, triangle, square and tetrahedron counts
Fec(p, s, t, q, h, sg) ==
  [dof |-> [g \in Geoms |->
             CASE g = "POINT" -> p [] g = "SEGMENT" -> s [] g = "TRIANGLE" -> t
               [] g = "SQUARE" -> q [] g = "TETRAHEDRON" -> h],
   signed |-> sg]

\* the collections of the model: nodal ones (vertex, edge, face and interior
\* dofs) and tangential or normal ones (signed edge or face dofs)
Fecs ==
  {Fec(1, 0, 0, 0, 0, FALSE), Fec(1, 0, 0, 1, 0, FALSE), Fec(1, 1, 0, 1, 1, FALSE),
   Fec(1, 2, 1, 4, 0, FALSE), Fec(1, 2, 0, 2, 1, FALSE), Fec(0, 1, 0, 0, 0, TRUE),
   Fec(0, 2, 0, 4, 0, TRUE), Fec(0, 1, 0, 2, 1, TRUE), Fec(0, 0, 1, 0, 1, TRUE),
   Fec(1, 1, 1, 1, 2, TRUE)}

\* in one dimension the interior dofs of an element are those of the segment
FESpaces == {[mesh |-> m, fec |-> f] : m \in Meshes, f \in Fecs}

\* mesh->GetElementBaseGeometry(i)
GetElementBaseGeometry(mesh, i) == mesh.geom

\* the dofs of the space are numbered vertices first, then edges, faces and
\* element interiors
NVDofs(fes) == GetNV(fes.mesh) * DofForGeometry(fes.fec, "POINT")

NEDofs(fes) ==
  IF Dimension(fes.mesh) > 1
  THEN GetNEdges(fes.mesh) * DofForGeometry(fes.fec, "SEGMENT") ELSE 0

NFDofs(fes) ==
  IF Dimension(fes.mesh) = 3
  THEN GetNFaces(fes.mesh) * DofForGeometry(fes.fec, "TRIANGLE") ELSE 0

InteriorCount(fes, i) ==
  DofForGeometry(fes.fec, GetElementBaseGeometry(fes.mesh, i))

RECURSIVE BDofs(_, _)
BDofs(fes, i) == IF i = 0 THEN 0 ELSE BDofs(fes, i - 1) + InteriorCount(fes, i - 1)

\* fes->GetNDofs()
GetNDofs(fes) == NVDofs(fes) + NEDofs(fes) + NFDofs(fes) + BDofs(fes, GetNE(fes.mesh))

\* fes->GetElementInteriorDofs(i, dofs)
GetElementInteriorDofs(fes, i) ==
  [j \in Idx(InteriorCount(fes, i)) |->
     NVDofs(fes) + NEDofs(fes) + NFDofs(fes) + BDofs(fes, i) + j]

(***************************************************************************)
(* State.  Objects are records whose fields carry the names of the members *)
(* of the classes of ep.cpp.                                                *)
(***************************************************************************)
VARIABLES
  epdofs,     \* the EPDoFs objects, by object id
  ExpDoFs,    \* GetElementDofs: the caller's array
  PriOffset,  \* GetElementDofs: the caller's offset
  numPri,     \* GetElementDofs: the caller's count
  epfield,    \* the EPField object
  xIn,        \* the interleaved vector handed to initFromInterleavedVector
  xBack,      \* the interleaved vector rebuilt from the field
  fstat,      \* what the last call on the field did
  epmatrix,   \* the EPMatrix object
  elmats,     \* the element matrices the bilinear form integrator returns
  fx,         \* the EPField x handed to Mult and ReducedRHS
  fy,         \* the EPField y handed to Mult and SolvePrivateDoFs
  mcall,      \* the last call on the EPMatrix
  mstat,      \* how that call ended
  pfes,       \* the distributed space: ranks, partitions, merged operator P
  pepdofs,    \* the ParEPDoFs object of every rank
  pread,      \* the highest index of TDoFPart the boundary scan read
  pfield,     \* the ParEPField object of every rank
  pOnce,      \* the ParEPField objects as the first reduce left them
  nreduce,    \* the number of updateParExposedDoFs calls so far
  pcall,      \* the last call on the distributed objects
  pstat,      \* how that call ended
  afield,     \* the field whose vectors are asked for
  adefault,   \* the number of field copies initVectors() makes
  acall,      \* the last call on that field
  aret,       \* what that call returned
  pmatrix,    \* the ParEPMatrix object of every rank
  px,         \* the ParEPField x of every rank handed to Mult and ReducedRHS
  pLocal,     \* y of every rank as the local Mult left it
  pret,       \* what ReducedOperator returned on every rank
  pnorm,      \* what Norml2 or Normlinf returned on every rank
  pcoll,      \* the collectives every rank has issued, in order
  asm,        \* EPMatrix::Assemble under way: its position and accumulators
  nodes,      \* the nodes grid function of the mesh
  geom,       \* the Geometry object Geometry::Get fills
  gcall,      \* the last call on the geometry
  jopt,       \* the options of the Joule driver
  jgf,        \* the grid functions of the Joule driver
  jfiles,     \* the files the Joule driver has written, by name
  jloop       \* the time loop of the Joule driver: ti, t, last_step

dofsVars == <<epdofs, ExpDoFs, PriOffset, numPri>>

fieldVars == <<epfield, xIn, xBack, fstat>>

matVars == <<epmatrix, elmats, fx, fy, mcall, mstat>>

parVars == <<pfes, pepdofs, pread, pfield, pOnce, nreduce, pcall, pstat>>

accVars == <<afield, adefault, acall, aret>>

pmVars == <<pmatrix, px, pLocal>>

normVars == <<pnorm, pcoll>>

asmVars == <<asm>>

geomVars == <<nodes, geom, gcall>>

jouleVars == <<jopt, jgf, jfiles, jloop>>

vars ==
  <<epdofs, ExpDoFs, PriOffset, numPri, epfield, xIn, xBack, fstat,
    epmatrix, elmats, fx, fy, mcall, mstat,
    pfes, pepdofs, pread, pfield, pOnce, nreduce, pcall, pstat,
    afield, adefault, acall, aret, pmatrix, px, pLocal,
    pret, pnorm, pcoll, asm, nodes, geom, gcall, jopt, jgf, jfiles, jloop>>

\* the caller's GetElementDofs arguments before any call
CallerIdle == ExpDoFs = << >> /\ PriOffset = 0 /\ numPri = 0

\* no field in use
FieldIdle == epfield = << >> /\ xIn = << >> /\ xBack = << >> /\ fstat = "none"

\* no matrix in use
MatIdle ==
  /\ epmatrix = << >> /\ elmats = << >> /\ fx = << >> /\ fy = << >>
  /\ mcall = "none" /\ mstat = "none"

\* no distributed object in use
ParIdle ==
  /\ pfes = << >> /\ pepdofs = << >> /\ pread = 0 /\ pfield = << >>
  /\ pOnce = << >> /\ nreduce = 0 /\ pcall = "none" /\ pstat = "none"

\* no field is asked for its vectors
AccIdle == afield = << >> /\ adefault = 0 /\ acall = << >> /\ aret = << >>

\* no distributed operator in use
PmIdle == pmatrix = << >> /\ px = << >> /\ pLocal = << >>

\* no ReducedOperator, norm, stepwise assembly, geometry or driver at work
RetIdle == pret = << >>

NormIdle == pnorm = << >> /\ pcoll = << >>

AsmIdle == asm = << >>

GeomIdle == nodes = << >> /\ geom = << >> /\ gcall = "none"

JouleIdle == jopt = << >> /\ jgf = << >> /\ jfiles = << >> /\ jloop = << >>

(***************************************************************************)
(* EPDoFs                                                                   *)
(***************************************************************************)
RECURSIVE SumInterior(_, _)
SumInterior(fes, n) ==
  IF n = 0 THEN 0 ELSE SumInterior(fes, n - 1) + InteriorCount(fes, n - 1)

\* EPDoFs::EPDoFs: the private dofs are the interior dofs of the elements
CountPrivateDofs(fes) == SumInterior(fes, GetNE(fes.mesh))

\* nExposedDofs_ without the private dofs taken off
CountExposedDofsAll(fes) == GetNDofs(fes)

CountExposedDofs(fes) == GetNDofs(fes) - CountPrivateDofs(fes)

EPDoFsNew(fes) ==
  [fes_ |-> fes,
   nExposedDofs_ |-> CountExposedDofs(fes),
   nPrivateDofs_ |-> CountPrivateDofs(fes),
   expDoFsByElem_ |-> NULL,
   priOffset_ |-> NULL]

\* SignedDof without the branch for a negative ind
SignedDofRaw(base, ind) == base + ind

\* the id of dof ind (negative: -1-ind negated) of an entity whose dofs start at base
SignedDof(base, ind) == IF ind < 0 THEN -1 - (base + (-1 - ind)) ELSE base + ind

\* EPDoFs::GetElementDofs, the derivation from the vertices, edges and faces
DirectElementDofs(fes, elem) ==
  LET mesh   == fes.mesh
      fec    == fes.fec
      dim    == Dimension(mesh)
      nvdofs == GetNV(mesh) * DofForGeometry(fec, "POINT")
      nedofs == IF dim > 1 THEN GetNEdges(mesh) * DofForGeometry(fec, "SEGMENT") ELSE 0
      nv     == DofForGeometry(fec, "POINT")
      ne     == IF dim > 1 THEN DofForGeometry(fec, "SEGMENT") ELSE 0
      V      == IF nv > 0 THEN GetElementVertices(mesh, elem) ELSE << >>
      E      == IF ne > 0 THEN ElementEdgesE(mesh, elem) ELSE << >>
      Eo     == IF ne > 0 THEN ElementEdgesEo(mesh, elem) ELSE << >>
      hasF   == dim = 3 /\ HasFaceDofs(fec, GetElementBaseGeometry(mesh, elem))
      F      == IF hasF THEN ElementFacesF(mesh, elem) ELSE << >>
      Fo     == IF hasF THEN ElementFacesFo(mesh, elem) ELSE << >>
      nf     == IF hasF THEN DofForGeometry(fec, "TRIANGLE") ELSE 0
      nd     == Size(V) * nv + Size(E) * ne + Size(F) * nf
      nvAll  == nv * Size(V)
      neAll  == nvAll + ne * Size(E)
  IN  [i \in Idx(nd) |->
        IF i < nvAll
          THEN V[i \div nv] * nv + (i % nv)
        ELSE IF i < neAll
          THEN LET k == (i - nvAll) \div ne
                   j == (i - nvAll) % ne
               IN  SignedDof(nvdofs + E[k] * ne, SegDofOrder(fec, Eo[k])[j])
        ELSE LET k == (i - neAll) \div nf
                 j == (i - neAll) % nf
             IN  SignedDof(nvdofs + nedofs + F[k] * nf, FaceDofOrder(fec, Fo[k])[j])]

\* EPDoFs::GetElementDofs(elem, ExpDoFs): the cached row, or the derivation
ElementDofsOf(d, elem) ==
  IF d.expDoFsByElem_ # NULL
  THEN Deref(d.expDoFsByElem_)[elem]
  ELSE DirectElementDofs(d.fes_, elem)

\* the table with the connections of element 0 added to every row
ElementToDofTableFirstRow(d) ==
  [i \in Idx(GetNE(d.fes_.mesh)) |-> ElementDofsOf(d, 0)]

\* EPDoFs::BuildElementToDofTable: the table of the rows of all elements
ElementToDofTable(d) ==
  [i \in Idx(GetNE(d.fes_.mesh)) |-> ElementDofsOf(d, i)]

RECURSIVE PriOffsetUpTo(_, _)
PriOffsetUpTo(fes, i) ==
  IF i = 0 THEN 0
  ELSE PriOffsetUpTo(fes, i - 1)
         + DofForGeometry(fes.fec, GetElementBaseGeometry(fes.mesh, i - 1))

\* BuildPriOffset with priOffset_[i+1] set to the count of element i alone
BuildPriOffsetNoAccum(fes) ==
  [i \in 0..GetNE(fes.mesh) |-> IF i = 0 THEN 0 ELSE InteriorCount(fes, i - 1)]

\* EPDoFs::GetElementDofs with offsets: the prefix sums priOffset_[0..NE]
BuildPriOffset(fes) == [i \in 0..GetNE(fes.mesh) |-> PriOffsetUpTo(fes, i)]

\* the object after GetElementDofs(elem, ExpDoFs, PriOffset, numPri)
WithPriOffset(d) ==
  IF d.priOffset_ = NULL
  THEN [d EXCEPT !.priOffset_ = Ptr(BuildPriOffset(d.fes_))]
  ELSE d

\* the object after BuildElementToDofTable()
WithTable(d) ==
  IF d.expDoFsByElem_ # NULL THEN d
  ELSE [d EXCEPT !.expDoFsByElem_ = Ptr(ElementToDofTable(d))]

GetNElements(d) == GetNE(d.fes_.mesh)

BuildElementToDofTable(o) ==
  /\ epdofs' = [epdofs EXCEPT ![o] = WithTable(epdofs[o])]
  /\ UNCHANGED <<ExpDoFs, PriOffset, numPri>>

GetElementDofs(o, elem) ==
  /\ ExpDoFs' = ElementDofsOf(epdofs[o], elem)
  /\ UNCHANGED <<epdofs, PriOffset, numPri>>

GetElementDofsOffsets(o, elem) ==
  LET d == WithPriOffset(epdofs[o])
  IN  /\ ExpDoFs' = ElementDofsOf(epdofs[o], elem)
      /\ epdofs' = [epdofs EXCEPT ![o] = d]
      /\ PriOffset' = Deref(d.priOffset_)[elem]
      /\ numPri' = Deref(d.priOffset_)[elem + 1] - Deref(d.priOffset_)[elem]

(***************************************************************************)
(* The dof partition alone: one EPDoFs object on any field space, and its  *)
(* calls in any order.                                                      *)
(***************************************************************************)
InitDofs ==
  /\ \E fes \in FESpaces : epdofs = [o \in {1} |-> EPDoFsNew(fes)]
  /\ CallerIdle
  /\ FieldIdle
  /\ MatIdle
  /\ ParIdle
  /\ AccIdle
  /\ PmIdle
  /\ RetIdle /\ NormIdle /\ AsmIdle /\ GeomIdle /\ JouleIdle

NextDofs ==
  \/ BuildElementToDofTable(1) /\ UNCHANGED <<fieldVars, matVars, parVars, accVars, pmVars, pret, normVars, asmVars, geomVars, jouleVars>>
  \/ \E elem \in Idx(GetNElements(epdofs[1])) :
       GetElementDofs(1, elem) /\ UNCHANGED <<fieldVars, matVars, parVars, accVars, pmVars, pret, normVars, asmVars, geomVars, jouleVars>>
  \/ \E elem \in Idx(GetNElements(epdofs[1])) :
       GetElementDofsOffsets(1, elem) /\ UNCHANGED <<fieldVars, matVars, parVars, accVars, pmVars, pret, normVars, asmVars, geomVars, jouleVars>>

SpecDofs == InitDofs /\ [][NextDofs]_vars

(***************************************************************************)
(* Properties of the dof partition.                                        *)
(***************************************************************************)
\* the dof a sign-tagged id stands for
Decode(i) == IF i < 0 THEN -1 - i ELSE i

DecodedRow(d, e) == {Decode(ElementDofsOf(d, e)[j]) : j \in DOMAIN ElementDofsOf(d, e)}

ElemsOf(d) == Idx(GetNElements(d))

\* the elements whose private range holds global dof g
PrivateOwners(d, g) ==
  LET off == Deref(d.priOffset_)
  IN  {e \in ElemsOf(d) :
        \E j \in Idx(off[e + 1] - off[e]) :
          /\ j \in DOMAIN GetElementInteriorDofs(d.fes_, e)
          /\ GetElementInteriorDofs(d.fes_, e)[j] = g}

ExposedReached(d, g) ==
  g < d.nExposedDofs_ /\ \E e \in ElemsOf(d) : g \in DecodedRow(d, e)

\* C1: every global dof is either an exposed dof reached through some
\* element's decoded row, or lies in the private range of exactly one element,
\* never both and never neither; the rows stay inside [0, nExposed) and the
\* private ranges tile [0, nPrivate).
C1_DisjointCover ==
  LET d == epdofs[1]
  IN  d.priOffset_ # NULL =>
        LET off == Deref(d.priOffset_)
        IN  /\ \A g \in Idx(GetNDofs(d.fes_)) :
                 (IF ExposedReached(d, g) THEN 1 ELSE 0)
                   + Cardinality(PrivateOwners(d, g)) = 1
            /\ \A e \in ElemsOf(d) : DecodedRow(d, e) \subseteq Idx(d.nExposedDofs_)
            /\ \A k \in Idx(d.nPrivateDofs_) :
                 Cardinality({e \in ElemsOf(d) : off[e] <= k /\ k < off[e + 1]}) = 1
            /\ \A e \in ElemsOf(d) : off[e + 1] <= d.nPrivateDofs_

\* C1 witness: two elements with signed shared edge dofs and interior dofs,
\* the offsets built and a row with a sign-tagged id handed out
C1_Witness ==
  /\ epdofs[1].priOffset_ # NULL
  /\ epdofs[1].fes_.mesh = MeshQuad2
  /\ epdofs[1].nPrivateDofs_ = 8
  /\ numPri = 4
  /\ PriOffset = 4
  /\ \E j \in DOMAIN ExpDoFs : ExpDoFs[j] < 0

\* the positions of local edge k in an element's row
EdgeSlots(fes, e, k) ==
  LET nv == DofForGeometry(fes.fec, "POINT")
      ne == DofForGeometry(fes.fec, "SEGMENT")
      nvAll == IF nv > 0 THEN nv * Len(fes.mesh.elems[e + 1]) ELSE 0
  IN  {nvAll + k * ne + j : j \in Idx(ne)}

SharedEdges(fes, e1, e2) ==
  {kk \in (DOMAIN ElementEdgesE(fes.mesh, e1)) \X (DOMAIN ElementEdgesE(fes.mesh, e2)) :
     ElementEdgesE(fes.mesh, e1)[kk[1]] = ElementEdgesE(fes.mesh, e2)[kk[2]]}

\* C8: the dofs of an edge shared by two elements are the same exposed ids in
\* both rows (up to the orientation sign), one id for each dof of the edge, and
\* nExposed counts every exposed id reached by the rows once.
C8_SharedOnce ==
  LET d == epdofs[1]
      fes == d.fes_
      ne == DofForGeometry(fes.fec, "SEGMENT")
  IN  /\ (Dimension(fes.mesh) > 1 /\ ne > 0) =>
           \A e1, e2 \in ElemsOf(d) :
             e1 # e2 =>
               \A kk \in SharedEdges(fes, e1, e2) :
                 LET ids1 == {Decode(ElementDofsOf(d, e1)[i]) : i \in EdgeSlots(fes, e1, kk[1])}
                     ids2 == {Decode(ElementDofsOf(d, e2)[i]) : i \in EdgeSlots(fes, e2, kk[2])}
                 IN  ids1 = ids2 /\ Cardinality(ids1) = ne
      /\ \A e \in ElemsOf(d) : Cardinality(DecodedRow(d, e)) = Size(ElementDofsOf(d, e))
      /\ Cardinality(UNION {DecodedRow(d, e) : e \in ElemsOf(d)}) = d.nExposedDofs_

\* C8 witness: element 1 of the two quadrilaterals, two dofs an edge, its row
\* read from the cached table
C8_Witness ==
  /\ epdofs[1].fes_.mesh = MeshQuad2
  /\ DofForGeometry(epdofs[1].fes_.fec, "SEGMENT") = 2
  /\ epdofs[1].expDoFsByElem_ # NULL
  /\ ExpDoFs = ElementDofsOf(epdofs[1], 1)
  /\ SharedEdges(epdofs[1].fes_, 0, 1) # {}

(***************************************************************************)
(* EPField                                                                  *)
(***************************************************************************)
\* EPField::EPField
EPFieldNew == [numFields_ |-> 0, ExposedDoFs_ |-> NULL, PrivateDoFs_ |-> NULL]

\* new Vector(n): n doubles that nothing has written yet, here all fill
NewVector(n, fill) == [i \in Idx(n) |-> fill]

\* EPField::initVectors(num)
InitVectors(d, num, fill) ==
  [numFields_ |-> num,
   ExposedDoFs_ |-> Ptr([i \in Idx(num) |-> NewVector(d.nExposedDofs_, fill)]),
   PrivateDoFs_ |-> Ptr([i \in Idx(num) |-> NewVector(d.nPrivateDofs_, fill)])]

\* fes->GetElementDofs(i, allDoFs): the vertex, edge and face dofs of the
\* element in the order and with the signs of EPDoFs::GetElementDofs, then
\* its interior dofs
FesGetElementDofs(fes, i) ==
  LET e == DirectElementDofs(fes, i)
      p == GetElementInteriorDofs(fes, i)
  IN  [j \in Idx(Size(e) + Size(p)) |-> IF j < Size(e) THEN e[j] ELSE p[j - Size(e)]]

\* the index initFromInterleavedVector uses for a negative id
OneMinus(i) == 1 - i

\* the j-th exposed dof of an element: (*xE)[..] = x[..]
CopyExposedDof(x, fill, allDoFs, expDoFs, j, st) ==
  LET tgt == IF allDoFs[j] >= 0 THEN expDoFs[j] ELSE OneMinus(expDoFs[j])
      src == IF allDoFs[j] >= 0 THEN allDoFs[j] ELSE OneMinus(allDoFs[j])
      val == IF src \in DOMAIN x THEN x[src] ELSE fill
  IN  IF tgt \in DOMAIN st.xE
      THEN [st EXCEPT !.xE[tgt] = val, !.oob = st.oob \/ src \notin DOMAIN x]
      ELSE [st EXCEPT !.oob = TRUE]

\* the loop over the exposed dofs lo .. hi-1 of an element, by halves
RECURSIVE CopyExposed(_, _, _, _, _, _, _)
CopyExposed(x, fill, allDoFs, expDoFs, lo, hi, st) ==
  IF hi <= lo THEN st
  ELSE IF hi = lo + 1 THEN CopyExposedDof(x, fill, allDoFs, expDoFs, lo, st)
  ELSE Bind(CopyExposed(x, fill, allDoFs, expDoFs, lo, (lo + hi) \div 2, st), LAMBDA half :
         CopyExposed(x, fill, allDoFs, expDoFs, (lo + hi) \div 2, hi, half))

\* the j-th private dof of an element: (*xP)[priOffset+j] = x[priDoFs[j]]
CopyPrivateDof(x, fill, priDoFs, priOffset, j, st) ==
  LET val == IF j \in DOMAIN priDoFs /\ priDoFs[j] \in DOMAIN x THEN x[priDoFs[j]] ELSE fill
  IN  IF priOffset + j \in DOMAIN st.xP
      THEN [st EXCEPT !.xP[priOffset + j] = val,
                      !.oob = st.oob \/ j \notin DOMAIN priDoFs
                                     \/ priDoFs[j] \notin DOMAIN x]
      ELSE [st EXCEPT !.oob = TRUE]

\* the loop over the private dofs lo .. hi-1 of an element, by halves
RECURSIVE CopyPrivate(_, _, _, _, _, _, _)
CopyPrivate(x, fill, priDoFs, priOffset, lo, hi, st) ==
  IF hi <= lo THEN st
  ELSE IF hi = lo + 1 THEN CopyPrivateDof(x, fill, priDoFs, priOffset, lo, st)
  ELSE Bind(CopyPrivate(x, fill, priDoFs, priOffset, lo, (lo + hi) \div 2, st), LAMBDA half :
         CopyPrivate(x, fill, priDoFs, priOffset, (lo + hi) \div 2, hi, half))

\* one turn of the element loop of initFromInterleavedVector
CopyElement(d, x, fill, i, st) ==
  Bind(<<FesGetElementDofs(d.fes_, i), GetElementInteriorDofs(d.fes_, i),
         ElementDofsOf(d, i)>>, LAMBDA rows :
    LET allDoFs == rows[1]
        priDoFs == rows[2]
        expDoFs == rows[3]
        off     == Deref(d.priOffset_)
    IN  Bind(CopyExposed(x, fill, allDoFs, expDoFs, 0, Size(expDoFs), st), LAMBDA exposed :
          CopyPrivate(x, fill, priDoFs, off[i], 0, off[i + 1] - off[i], exposed)))

RECURSIVE CopyElements(_, _, _, _, _)
CopyElements(d, x, fill, n, st) ==
  IF n = 0 THEN st
  ELSE Bind(CopyElements(d, x, fill, n - 1, st), LAMBDA prev :
         CopyElement(d, x, fill, n - 1, prev))

\* EPField::initFromInterleavedVector(x); a store or load outside a vector
\* is undefined: the call may end the process, or go on without the store
initFromInterleavedVector(x, fill) ==
  /\ fstat = "new"
  /\ \E d \in Val(WithPriOffset(epdofs[1])) :
       \E f \in Val(InitVectors(d, 1, fill)) :
         \E st \in Val(CopyElements(d, x, fill, GetNElements(d),
                                    [xE |-> Deref(f.ExposedDoFs_)[0],
                                     xP |-> Deref(f.PrivateDoFs_)[0],
                                     oob |-> FALSE])) :
           /\ epdofs' = [epdofs EXCEPT ![1] = d]
           /\ epfield' = [f EXCEPT !.ExposedDoFs_ = Ptr([i \in Idx(1) |-> st.xE]),
                                   !.PrivateDoFs_ = Ptr([i \in Idx(1) |-> st.xP])]
           /\ fstat' \in (IF st.oob THEN {"initOutOfBounds", "crashed"} ELSE {"init"})
  /\ xIn' = x
  /\ UNCHANGED <<xBack, ExpDoFs, PriOffset, numPri, matVars, parVars, accVars, pmVars, pret, normVars, asmVars, geomVars, jouleVars>>

\* the inverse of initFromInterleavedVector: element by element, the exposed
\* dofs back to x[allDoFs[j]] (negated where sign-tagged), the private dofs
\* back to x[priDoFs[j]]
RebuildExposedDof(xE, allDoFs, expDoFs, j, x) ==
  IF allDoFs[j] >= 0
  THEN [x EXCEPT ![allDoFs[j]] = xE[expDoFs[j]]]
  ELSE [x EXCEPT ![-1 - allDoFs[j]] = QNeg[xE[-1 - expDoFs[j]]]]

RECURSIVE RebuildExposed(_, _, _, _, _, _)
RebuildExposed(xE, allDoFs, expDoFs, lo, hi, x) ==
  IF hi <= lo THEN x
  ELSE IF hi = lo + 1 THEN RebuildExposedDof(xE, allDoFs, expDoFs, lo, x)
  ELSE Bind(RebuildExposed(xE, allDoFs, expDoFs, lo, (lo + hi) \div 2, x), LAMBDA half :
         RebuildExposed(xE, allDoFs, expDoFs, (lo + hi) \div 2, hi, half))

RECURSIVE RebuildPrivate(_, _, _, _, _, _)
RebuildPrivate(xP, priDoFs, priOffset, lo, hi, x) ==
  IF hi <= lo THEN x
  ELSE IF hi = lo + 1 THEN [x EXCEPT ![priDoFs[lo]] = xP[priOffset + lo]]
  ELSE Bind(RebuildPrivate(xP, priDoFs, priOffset, lo, (lo + hi) \div 2, x), LAMBDA half :
         RebuildPrivate(xP, priDoFs, priOffset, (lo + hi) \div 2, hi, half))

RECURSIVE RebuildElements(_, _, _, _, _)
RebuildElements(d, xE, xP, n, x) ==
  IF n = 0 THEN x
  ELSE LET i   == n - 1
           off == Deref(d.priOffset_)
       IN  Bind(<<RebuildElements(d, xE, xP, i, x), FesGetElementDofs(d.fes_, i),
                  GetElementInteriorDofs(d.fes_, i), ElementDofsOf(d, i)>>, LAMBDA t :
             Bind(RebuildExposed(xE, t[2], t[4], 0, Size(t[4]), t[1]), LAMBDA exposed :
               RebuildPrivate(xP, t[3], off[i], 0, off[i + 1] - off[i], exposed)))

toInterleavedVector ==
  /\ fstat \in {"init", "initOutOfBounds"}
  /\ xBack' = RebuildElements(epdofs[1], Deref(epfield.ExposedDoFs_)[0],
                              Deref(epfield.PrivateDoFs_)[0],
                              GetNElements(epdofs[1]),
                              NewVector(GetNDofs(epdofs[1].fes_), QZero))
  /\ fstat' = "rebuilt"
  /\ UNCHANGED <<epdofs, epfield, xIn, ExpDoFs, PriOffset, numPri, matVars, parVars, accVars, pmVars, pret, normVars, asmVars, geomVars, jouleVars>>

(***************************************************************************)
(* The field storage: an EPField on any field space, filled from any       *)
(* interleaved vector and converted back.                                   *)
(***************************************************************************)
MaxSlope == 2

MaxFill == 1

\* the interleaved vectors of the model: a different value at every dof
XInputs(n) ==
  {[g \in Idx(n) |-> QI(a * (g + 1) + b)] : a \in {-MaxSlope, MaxSlope}, b \in {0, 1}}

\* what memory nothing has written may hold
Fills == {QI(7 * k) : k \in 0..MaxFill}

InitField ==
  /\ \E fes \in FESpaces : epdofs = [o \in {1} |-> EPDoFsNew(fes)]
  /\ CallerIdle
  /\ epfield = EPFieldNew
  /\ xIn = << >>
  /\ xBack = << >>
  /\ fstat = "new"
  /\ MatIdle
  /\ ParIdle
  /\ AccIdle
  /\ PmIdle
  /\ RetIdle /\ NormIdle /\ AsmIdle /\ GeomIdle /\ JouleIdle

NextField ==
  \/ BuildElementToDofTable(1) /\ fstat = "new" /\ UNCHANGED <<fieldVars, matVars, parVars, accVars, pmVars, pret, normVars, asmVars, geomVars, jouleVars>>
  \/ \E x \in XInputs(GetNDofs(epdofs[1].fes_)), fill \in Fills :
       initFromInterleavedVector(x, fill)
  \/ toInterleavedVector

SpecField == InitField /\ [][NextField]_vars

\* C2: the vector rebuilt from the field is the vector it was filled from
C2_RoundTrip == fstat = "rebuilt" => xBack = xIn

(***************************************************************************)
(* EPMatrix                                                                 *)
(***************************************************************************)
\* EPMatrix::EPMatrix(epdofsL, epdofsR, bfi)
EPMatrixNew(L, R) ==
  [epdofsL_ |-> L, epdofsR_ |-> R, Mee_ |-> NULL, Mep_ |-> NULL, Mpe_ |-> NULL,
   Mrr_ |-> NULL, Mpp_ |-> NULL, MppInv_ |-> NULL, reducedRHS_ |-> NULL,
   vecp_ |-> NULL]

\* an EPField of one field copy with the given exposed and private vectors
MakeField(E, P) ==
  [numFields_ |-> 1, ExposedDoFs_ |-> Ptr([i \in Idx(1) |-> E]),
   PrivateDoFs_ |-> Ptr([i \in Idx(1) |-> P])]

\* x.ExposedDoFs(0), x.PrivateDoFs(0)
ExposedOf(f) == Deref(f.ExposedDoFs_)[0]

PrivateOf(f) == Deref(f.PrivateDoFs_)[0]

\* SparseMatrix::Add(r, c, a) for every <<r, c, a>> of the list T that
\* addresses an entry of the matrix
AddEntries(M, T) ==
  Bind(<<M, T>>, LAMBDA p :
    [r \in DOMAIN p[1] |-> [c \in DOMAIN p[1][r] |->
       QAdd[p[1][r][c],
            QSum([k \in DOMAIN p[2] |->
                    IF p[2][k][1] = r /\ p[2][k][2] = c THEN p[2][k][3] ELSE QZero])]]])

\* some <<r, c, a>> of T addresses no entry of an nr x nc matrix
Outside(nr, nc, T) ==
  \E k \in DOMAIN T : T[k][1] \notin Idx(nr) \/ T[k][2] \notin Idx(nc)

\* SparseMatrix::AddSubMatrix(rows, cols, subm): a negative index i stands
\* for -1-i and flips the sign of the entry
SubEntries(rows, cols, subm) ==
  [k \in Idx(Size(rows) * Size(cols)) |->
     LET i == k \div Size(cols)
         j == k % Size(cols)
     IN  <<Decode(rows[i]), Decode(cols[j]),
           IF (rows[i] < 0) # (cols[j] < 0) THEN QNeg[subm[i][j]] ELSE subm[i][j]>>]

\* Assemble: Mep_->Add(expDoFsL[ii], priOffsetR+jj, mep(ii,jj))
MepEntries(expDoFsL, priOffsetR, nPriR, mep) ==
  [k \in Idx(Size(expDoFsL) * nPriR) |->
     LET ii == k \div nPriR
         jj == k % nPriR
     IN  <<expDoFsL[ii], priOffsetR + jj, mep[ii][jj]>>]

\* Assemble: Mpe_->Add(priOffsetR+jj, expDoFsR[ii], mpe(ii,jj)); expDoFsR[ii]
\* past the end of the array is no index of the matrix
MpeEntries(expDoFsR, priOffsetR, nPriL, mpe) ==
  [k \in Idx(nPriL * Size(expDoFsR)) |->
     LET ii == k \div Size(expDoFsR)
         jj == k % Size(expDoFsR)
     IN  <<priOffsetR + jj,
           IF ii \in DOMAIN expDoFsR THEN expDoFsR[ii] ELSE -1,
           mpe[ii][jj]>>]

\* mep.Data()[idx] of the column-major h x w DenseMatrix mep
MepData(mep, h, idx) == mep[idx % h][idx \div h]

\* Assemble: the block mrr of an element, column by column:
\* vcMpe = mep.Data()[jj*nPriR ..], vpR = MppInv vcMpe, veL = mep vpR,
\* mrr(ii,jj) = -veL(ii), then mrr += mee
ReducedBlock(mee, mep, mppInv, nE, nPriR) ==
  Bind([jj \in Idx(nE) |->
          MatVec(mep, nPriR,
                 MatVec(mppInv, nPriR,
                        [k \in Idx(nPriR) |-> MepData(mep, nE, jj * nPriR + k)]))],
       LAMBDA veL :
         [ii \in Idx(nE) |-> [jj \in Idx(nE) |-> QAdd[QNeg[veL[jj][ii]], mee[ii][jj]]]])

\* one turn of the element loop of Assemble; elmat is the square matrix the
\* integrator returns for the element of the right space, and a block copied
\* from beyond its rows holds what that memory holds
AssembleElement(dL, dR, same, elmat, i, fill, acc) ==
  Bind(<<ElementDofsOf(dL, i), ElementDofsOf(dR, i)>>, LAMBDA exp :
    LET expDoFsL   == exp[1]
        expDoFsR   == exp[2]
        priOffsetL == Deref(dL.priOffset_)[i]
        priOffsetR == Deref(dR.priOffset_)[i]
        nPriL      == Deref(dL.priOffset_)[i + 1] - priOffsetL
        nPriR      == Deref(dR.priOffset_)[i + 1] - priOffsetR
        nEL        == Size(expDoFsL)
        nER        == Size(expDoFsR)
        short      == nEL + nPriL > Size(elmat)
        el         == [r \in Idx(nEL + nPriL) |-> [c \in Idx(nER + nPriR) |->
                         IF r \in DOMAIN elmat THEN elmat[r][c] ELSE fill]]
    IN  Bind(<<CopyMN(el, nEL, nER, 0, 0), CopyMN(el, nEL, nPriR, 0, nER),
               CopyMN(el, nPriL, nER, nEL, 0), CopyMN(el, nPriL, nPriR, nEL, nER)>>,
             LAMBDA blk :
      LET mee  == blk[1]
          mep  == blk[2]
          mpe  == blk[3]
          mpp  == blk[4]
          TMep == MepEntries(expDoFsL, priOffsetR, nPriR, mep)
          TMpe == MpeEntries(expDoFsR, priOffsetR, nPriL, mpe)
      IN  Bind(IF same THEN Inverse(mpp, nPriR) ELSE mpp, LAMBDA inv :
            Bind(IF same THEN ReducedBlock(mee, mep, inv, nEL, nPriR)
                 ELSE [ii \in Idx(nEL) |-> [jj \in Idx(nER) |-> fill]], LAMBDA mrr :
              [Mee    |-> AddEntries(acc.Mee, SubEntries(expDoFsL, expDoFsR, mee)),
               Mep    |-> AddEntries(acc.Mep, TMep),
               Mpe    |-> IF same THEN acc.Mpe ELSE AddEntries(acc.Mpe, TMpe),
               Mrr    |-> AddEntries(acc.Mrr, SubEntries(expDoFsL, expDoFsR, mrr)),
               Mpp    |-> [e \in Idx(i + 1) |-> IF e = i THEN mpp ELSE acc.Mpp[e]],
               MppInv |-> IF same
                          THEN [e \in Idx(i + 1) |-> IF e = i THEN inv ELSE acc.MppInv[e]]
                          ELSE acc.MppInv,
               undef  |-> \/ acc.undef
                          \/ short
                          \/ Outside(dL.nExposedDofs_, dR.nPrivateDofs_, TMep)
                          \/ (~same /\ Outside(dL.nPrivateDofs_, dR.nExposedDofs_, TMpe))
                          \/ (~same /\ nEL > 0 /\ nER > 0)]))))

RECURSIVE AssembleElements(_, _, _, _, _, _, _)
AssembleElements(dL, dR, same, els, n, fill, acc) ==
  IF n = 0 THEN acc
  ELSE Bind(AssembleElements(dL, dR, same, els, n - 1, fill, acc), LAMBDA done :
         AssembleElement(dL, dR, same, els[n - 1], n - 1, fill, done))

\* the accumulators as Assemble allocates them, before the element loop
NewAccumulators(dL, dR) ==
  [Mee |-> ZeroMat(dL.nExposedDofs_, dR.nExposedDofs_),
   Mep |-> ZeroMat(dL.nExposedDofs_, dR.nPrivateDofs_),
   Mpe |-> ZeroMat(dL.nPrivateDofs_, dR.nExposedDofs_),
   Mrr |-> ZeroMat(dL.nExposedDofs_, dR.nExposedDofs_),
   Mpp |-> << >>, MppInv |-> << >>, undef |-> FALSE]

\* the matrix object m with the accumulators acc behind its pointers
WithAccumulators(m, dR, acc, fill) ==
  LET same == m.epdofsL_ = m.epdofsR_
  IN  [m EXCEPT
         !.reducedRHS_ = IF same THEN Ptr(NewVector(dR.nExposedDofs_, fill)) ELSE NULL,
         !.vecp_ = IF same THEN Ptr(NewVector(dR.nPrivateDofs_, fill)) ELSE NULL,
         !.Mee_ = Ptr(acc.Mee), !.Mep_ = Ptr(acc.Mep),
         !.Mrr_ = Ptr(acc.Mrr),
         !.Mpe_ = IF same THEN NULL ELSE Ptr(acc.Mpe),
         !.Mpp_ = Ptr(acc.Mpp),
         !.MppInv_ = IF same THEN Ptr(acc.MppInv) ELSE NULL]

\* EPMatrix::Assemble() on the partitions dL, dR with their offsets built:
\* the matrix object afterwards, and whether an Add went outside a matrix
AssembleOf(m, dL, dR, els, fill) ==
  LET same == m.epdofsL_ = m.epdofsR_
  IN  Bind(AssembleElements(dL, dR, same, els, GetNElements(dR), fill,
                            NewAccumulators(dL, dR)),
           LAMBDA acc :
             [m |-> WithAccumulators(m, dR, acc, fill), undef |-> acc.undef])

\* EPMatrix::Assemble(); mrr is never sized when left # right, Add outside a
\* matrix is undefined: the call may then end the process or go on
Assemble(fill) ==
  LET m == epmatrix
  IN  /\ mcall = "none"
      /\ \E dL \in Val(WithPriOffset(epdofs[m.epdofsL_])),
            dR \in Val(WithPriOffset(epdofs[m.epdofsR_])) :
           \E r \in Val(AssembleOf(m, dL, dR, elmats, fill)) :
             /\ epdofs' = [o \in DOMAIN epdofs |->
                             IF o = m.epdofsL_ THEN dL ELSE IF o = m.epdofsR_ THEN dR
                             ELSE epdofs[o]]
             /\ epmatrix' = r.m
             /\ mstat' \in (IF r.undef THEN {"undefined", "crashed"} ELSE {"ok"})
      /\ mcall' = "Assemble"
      /\ UNCHANGED <<elmats, fx, fy>>

\* the matrix is assembled and the process runs
Assembled == mcall \notin {"none", "~EPMatrix"} /\ mstat # "crashed"

\* Mult: Mpp_[i]->Mult(&x.private[priOffL[i]], &y.private[priOffR[i]])
MultBlock(mpp, priOffL, priOffR, nPriL, nPriR, xP, st) ==
  [yP    |-> [s \in DOMAIN st.yP |->
                IF s - priOffR \in Idx(nPriL)
                THEN QSum([l \in Idx(nPriR) |->
                             QMul[mpp[s - priOffR][l],
                                  IF priOffL + l \in DOMAIN xP THEN xP[priOffL + l] ELSE QZero]])
                ELSE st.yP[s]],
   undef |-> \/ st.undef
             \/ \E l \in Idx(nPriR) : priOffL + l \notin DOMAIN xP
             \/ \E k \in Idx(nPriL) : priOffR + k \notin DOMAIN st.yP]

RECURSIVE MultBlocks(_, _, _, _, _, _)
MultBlocks(Mpp, offL, offR, xP, n, st) ==
  IF n = 0 THEN st
  ELSE Bind(MultBlocks(Mpp, offL, offR, xP, n - 1, st), LAMBDA prev :
         MultBlock(Mpp[n - 1], offL[n - 1], offR[n - 1],
                   Size(Mpp[n - 1]),
                   offR[n] - offR[n - 1],
                   xP, prev))

\* EPMatrix::Mult(const EPField & x, EPField & y) of the matrix m on the
\* partitions dL, dR: y afterwards, and whether a block went outside a vector
MultOf(m, dL, dR, x, fill) ==
  LET xE  == ExposedOf(x)
      xP  == PrivateOf(x)
      yE  == VecAdd(MatVec(Deref(m.Mee_), dR.nExposedDofs_, xE),
                    MatVec(Deref(m.Mep_), dR.nPrivateDofs_, xP))
      add == IF m.Mpe_ # NULL
             THEN MatVec(Deref(m.Mpe_), dR.nExposedDofs_, xE)
             ELSE MatTVec(Deref(m.Mep_), dR.nPrivateDofs_, xE)
  IN  Bind(MultBlocks(Deref(m.Mpp_), Deref(dL.priOffset_), Deref(dR.priOffset_),
                      xP, GetNElements(dR),
                      [yP |-> NewVector(dL.nPrivateDofs_, fill), undef |-> FALSE]),
           LAMBDA st : [y |-> MakeField(yE, VecAdd(st.yP, add)), undef |-> st.undef])

\* EPMatrix::Mult on the operator of the model
Mult(x, fill) ==
  LET m == epmatrix
  IN  /\ Assembled
      /\ fx' = x
      /\ \E r \in Val(MultOf(m, epdofs[m.epdofsL_], epdofs[m.epdofsR_], x, fill)) :
           /\ fy' = r.y
           /\ mstat' \in (IF r.undef THEN {"undefined", "crashed"} ELSE {mstat})
      /\ mcall' = "Mult"
      /\ UNCHANGED <<epdofs, epmatrix, elmats>>

\* the private vector v (read at priOffL) through the per-element inverses,
\* written at priOffR
RECURSIVE InvBlocks(_, _, _, _, _, _)
InvBlocks(MppInv, offL, offR, v, n, out) ==
  IF n = 0 THEN out
  ELSE LET i    == n - 1
           size == Size(MppInv[i])
       IN  Bind(<<InvBlocks(MppInv, offL, offR, v, i, out),
                  MatVec(MppInv[i], size, [k \in Idx(size) |-> v[offL[i] + k]])>>,
                LAMBDA pw :
                  [s \in DOMAIN pw[1] |->
                     IF s - offR[i] \in Idx(size) THEN pw[2][s - offR[i]] ELSE pw[1][s]])

\* EPMatrix::ReducedRHS(const EPField & x); with left # right MppInv_, vecp_
\* and reducedRHS_ are null and the first MppInv_[i]->Size() is undefined
ReducedRHS(x) ==
  LET m  == epmatrix
      dL == epdofs[m.epdofsL_]
      dR == epdofs[m.epdofsR_]
  IN  /\ Assembled
      /\ fx' = x
      /\ mcall' = "ReducedRHS"
      /\ IF m.MppInv_ = NULL
         THEN /\ mstat' \in {"undefined", "crashed"}
              /\ UNCHANGED epmatrix
         ELSE \E vecp \in Val(InvBlocks(Deref(m.MppInv_), Deref(dL.priOffset_),
                                        Deref(dR.priOffset_), PrivateOf(x),
                                        GetNElements(dR), Deref(m.vecp_))) :
                /\ epmatrix' =
                     [m EXCEPT !.vecp_ = Ptr(vecp),
                               !.reducedRHS_ =
                                 Ptr(VecSub(ExposedOf(x),
                                            MatVec(Deref(m.Mep_), dR.nPrivateDofs_, vecp)))]
                /\ mstat' = mstat
      /\ UNCHANGED <<epdofs, elmats, fy>>

\* the driver solves the reduced system Mrr y.exposed = reducedRHS
SolveReduced(fill) ==
  LET m == epmatrix
      n == epdofs[m.epdofsR_].nExposedDofs_
  IN  /\ mcall = "ReducedRHS" /\ mstat = "ok"
      /\ Invertible(Deref(m.Mrr_), n)
      /\ fy' = MakeField(SolveVec(Deref(m.Mrr_), n, Deref(m.reducedRHS_)),
                         NewVector(epdofs[m.epdofsR_].nPrivateDofs_, fill))
      /\ mcall' = "SolveReduced"
      /\ UNCHANGED <<epdofs, epmatrix, elmats, fx, mstat>>

\* EPMatrix::SolvePrivateDoFs(const Vector & x, EPField & y), x the private
\* part of the right hand side
SolvePrivateDoFs ==
  LET m  == epmatrix
      dL == epdofs[m.epdofsL_]
      dR == epdofs[m.epdofsR_]
      yE == ExposedOf(fy)
  IN  /\ mcall = "SolveReduced"
      /\ mcall' = "SolvePrivateDoFs"
      /\ IF m.vecp_ = NULL \/ m.MppInv_ = NULL
         THEN /\ mstat' \in {"undefined", "crashed"}
              /\ UNCHANGED <<epmatrix, fy>>
         ELSE \E vecp \in Val(VecSub(PrivateOf(fx),
                                     IF m.Mpe_ # NULL
                                     THEN MatVec(Deref(m.Mpe_), dR.nExposedDofs_, yE)
                                     ELSE MatTVec(Deref(m.Mep_), dR.nPrivateDofs_, yE))) :
                /\ epmatrix' = [m EXCEPT !.vecp_ = Ptr(vecp)]
                /\ fy' = MakeField(yE,
                           InvBlocks(Deref(m.MppInv_), Deref(dL.priOffset_),
                                     Deref(dR.priOffset_), vecp,
                                     GetNElements(dR), PrivateOf(fy)))
                /\ mstat' = mstat
      /\ UNCHANGED <<epdofs, elmats, fx>>

\* EPMatrix::~EPMatrix(): the loop over the elements reads Mpp_[i] and
\* MppInv_[i] before either array is tested against NULL; a read through a
\* null array is undefined: the call may end the process or go on
EPMatrixDestructor ==
  LET m        == epmatrix
      nullRead == /\ GetNElements(epdofs[m.epdofsR_]) > 0
                  /\ (m.Mpp_ = NULL \/ m.MppInv_ = NULL)
  IN  /\ mcall # "~EPMatrix" /\ mstat # "crashed"
      /\ mcall' = "~EPMatrix"
      /\ mstat' \in (IF nullRead THEN {"undefined", "crashed"} ELSE {mstat})
      /\ epmatrix' = [m EXCEPT !.Mee_ = NULL, !.Mep_ = NULL, !.Mpe_ = NULL,
                               !.Mrr_ = NULL, !.Mpp_ = NULL, !.MppInv_ = NULL,
                               !.reducedRHS_ = NULL, !.vecp_ = NULL]
      /\ UNCHANGED <<epdofs, elmats, fx, fy>>

(***************************************************************************)
(* The operator under all its calls.                                        *)
(***************************************************************************)
MaxSeed == 1

MaxSkew == 1

\* an n x n element matrix: a symmetric, strictly diagonally dominant part
\* chosen by s, plus t on every entry above the diagonal
ElMatOf(s, t, n) ==
  [i \in Idx(n) |-> [j \in Idx(n) |->
     QI((IF i = j THEN 5 + ((s + i) % 3)
         ELSE (((i + 1) * (j + 1) * (s + 1) + s) % 3) - 1)
        + (IF i < j THEN t ELSE 0))]]

\* the pairs (left, right) an operator is built on; same tells that both are
\* one object
MatSpaces ==
  {[L |-> [mesh |-> MeshSeg2, fec |-> f], R |-> [mesh |-> MeshSeg2, fec |-> f], same |-> TRUE] :
     f \in {Fec(1, 0, 0, 0, 0, FALSE), Fec(1, 1, 0, 1, 1, FALSE), Fec(1, 2, 1, 4, 0, FALSE)}}
  \cup
  {[L |-> [mesh |-> MeshQuad1, fec |-> Fec(1, 0, 0, 1, 0, FALSE)],
    R |-> [mesh |-> MeshQuad1, fec |-> Fec(1, 0, 0, 1, 0, FALSE)], same |-> TRUE]}
  \cup
  {[L |-> [mesh |-> MeshTri2, fec |-> Fec(0, 1, 1, 0, 0, TRUE)],
    R |-> [mesh |-> MeshTri2, fec |-> Fec(0, 1, 1, 0, 0, TRUE)], same |-> TRUE]}
  \cup
  {[L |-> [mesh |-> MeshSeg2, fec |-> f], R |-> [mesh |-> MeshSeg2, fec |-> g], same |-> FALSE] :
     f, g \in {Fec(1, 1, 0, 1, 1, FALSE), Fec(1, 2, 1, 4, 0, FALSE)}}
  \cup
  {[L |-> [mesh |-> MeshSeg2, fec |-> f], R |-> [mesh |-> MeshSeg2, fec |-> f], same |-> FALSE] :
     f \in {Fec(0, 1, 0, 0, 0, FALSE)}}

\* the fields of a partition: an interleaved vector split into its exposed
\* and its private part
FieldInputs(d) ==
  {MakeField([g \in Idx(d.nExposedDofs_) |-> x[g]],
             [k \in Idx(d.nPrivateDofs_) |-> x[d.nExposedDofs_ + k]]) :
     x \in XInputs(GetNDofs(d.fes_))}

InitMatrix ==
  /\ \E sp \in MatSpaces, s \in 0..MaxSeed, t \in 0..MaxSkew :
       /\ epdofs = [o \in 1..(IF sp.same THEN 1 ELSE 2) |->
                      EPDoFsNew(IF o = 1 THEN sp.L ELSE sp.R)]
       /\ epmatrix = EPMatrixNew(1, IF sp.same THEN 1 ELSE 2)
       /\ elmats = [i \in Idx(GetNE(sp.R.mesh)) |->
                      ElMatOf(s + i, t, Size(FesGetElementDofs(sp.R, i)))]
  /\ fx = << >>
  /\ fy = << >>
  /\ mcall = "none"
  /\ mstat = "ok"
  /\ CallerIdle
  /\ FieldIdle
  /\ ParIdle
  /\ AccIdle
  /\ PmIdle
  /\ RetIdle /\ NormIdle /\ AsmIdle /\ GeomIdle /\ JouleIdle

NextMatrix ==
  \/ \E fill \in Fills :
       Assemble(fill) /\ UNCHANGED <<ExpDoFs, PriOffset, numPri, fieldVars, parVars, accVars, pmVars, pret, normVars, asmVars, geomVars, jouleVars>>
  \/ \E x \in FieldInputs(epdofs[epmatrix.epdofsR_]), fill \in Fills :
       Mult(x, fill) /\ UNCHANGED <<ExpDoFs, PriOffset, numPri, fieldVars, parVars, accVars, pmVars, pret, normVars, asmVars, geomVars, jouleVars>>
  \/ \E x \in FieldInputs(epdofs[epmatrix.epdofsR_]) :
       ReducedRHS(x) /\ UNCHANGED <<ExpDoFs, PriOffset, numPri, fieldVars, parVars, accVars, pmVars, pret, normVars, asmVars, geomVars, jouleVars>>
  \/ \E fill \in Fills :
       SolveReduced(fill) /\ UNCHANGED <<ExpDoFs, PriOffset, numPri, fieldVars, parVars, accVars, pmVars, pret, normVars, asmVars, geomVars, jouleVars>>
  \/ SolvePrivateDoFs /\ UNCHANGED <<ExpDoFs, PriOffset, numPri, fieldVars, parVars, accVars, pmVars, pret, normVars, asmVars, geomVars, jouleVars>>
  \/ EPMatrixDestructor /\ UNCHANGED <<ExpDoFs, PriOffset, numPri, fieldVars, parVars, accVars, pmVars, pret, normVars, asmVars, geomVars, jouleVars>>

SpecMatrix == InitMatrix /\ [][NextMatrix]_vars

(***************************************************************************)
(* Assemble statement by statement: the allocation, the turns of the       *)
(* element loop, the calls of Finalize.  asm holds the position in the     *)
(* call, the accumulators as far as they are filled, for every accumulator *)
(* the number of elements that have added to it, and the accumulators      *)
(* Finalize was called on.                                                 *)
(***************************************************************************)
AccNames == {"Mee", "Mep", "Mrr", "Mpe"}

\* the accumulators Assemble allocates for the operator m
Allocated(m) == IF m.epdofsL_ = m.epdofsR_ THEN {"Mee", "Mep", "Mrr"} ELSE AccNames

\* Assemble up to its element loop
AssembleBegin(fill) ==
  LET m == epmatrix
  IN  /\ asm.pc = "start" /\ mcall = "none"
      /\ \E dL \in Val(WithPriOffset(epdofs[m.epdofsL_])),
            dR \in Val(WithPriOffset(epdofs[m.epdofsR_])) :
           /\ epdofs' = [o \in DOMAIN epdofs |->
                           IF o = m.epdofsL_ THEN dL ELSE IF o = m.epdofsR_ THEN dR
                           ELSE epdofs[o]]
           /\ asm' = [pc |-> "loop", i |-> 0, fill |-> fill,
                      acc |-> NewAccumulators(dL, dR),
                      added |-> [a \in AccNames |-> 0], finalized |-> {}]
           /\ epmatrix' = WithAccumulators(m, dR, NewAccumulators(dL, dR), fill)
      /\ UNCHANGED <<elmats, fx, fy, mcall, mstat>>

\* one turn of the element loop; an Add outside a matrix is undefined and
\* may end the process
AssembleTurn ==
  LET m  == epmatrix
      dL == epdofs[m.epdofsL_]
      dR == epdofs[m.epdofsR_]
  IN  /\ asm.pc = "loop" /\ asm.i < GetNElements(dR)
      /\ \E acc \in Val(AssembleElement(dL, dR, m.epdofsL_ = m.epdofsR_, elmats[asm.i],
                                         asm.i, asm.fill, asm.acc)) :
           \E pc \in (IF acc.undef THEN {"loop", "crashed"} ELSE {"loop"}) :
             /\ asm' = [asm EXCEPT
                          !.pc = pc, !.i = asm.i + 1, !.acc = acc,
                          !.added = [a \in AccNames |->
                                       IF a \in Allocated(m) THEN asm.added[a] + 1
                                       ELSE asm.added[a]]]
             /\ epmatrix' = WithAccumulators(m, dR, acc, asm.fill)
             /\ mstat' = (IF pc = "crashed" THEN "crashed" ELSE mstat)
      /\ UNCHANGED <<epdofs, elmats, fx, fy, mcall>>

\* Finalize on every accumulator, in the first turn of the loop already
AssembleFinalizeEarly ==
  LET n == GetNElements(epdofs[epmatrix.epdofsR_])
  IN  /\ asm.pc = "loop" /\ asm.i >= 1 /\ asm.finalized = {}
      /\ asm' = [asm EXCEPT !.pc = (IF asm.i = n THEN "done" ELSE "loop"),
                            !.finalized = Allocated(epmatrix)]
      /\ mcall' = (IF asm.i = n THEN "Assemble" ELSE mcall)
      /\ mstat' = (IF asm.acc.undef THEN "undefined" ELSE "ok")
      /\ UNCHANGED <<epdofs, epmatrix, elmats, fx, fy>>

\* the end of Assemble: Mee_->Finalize(), Mep_->Finalize(), Mrr_->Finalize()
\* and, if Mpe_ exists, Mpe_->Finalize(), after the loop
AssembleFinalize ==
  LET n == GetNElements(epdofs[epmatrix.epdofsR_])
  IN  /\ asm.pc = "loop" /\ asm.i = n
      /\ asm' = [asm EXCEPT !.pc = "done", !.finalized = Allocated(epmatrix)]
      /\ mcall' = "Assemble"
      /\ mstat' = (IF asm.acc.undef THEN "undefined" ELSE "ok")
      /\ UNCHANGED <<epdofs, epmatrix, elmats, fx, fy>>

InitAssemble ==
  /\ \E sp \in MatSpaces, s \in 0..MaxSeed, t \in 0..MaxSkew :
       /\ epdofs = [o \in 1..(IF sp.same THEN 1 ELSE 2) |->
                      EPDoFsNew(IF o = 1 THEN sp.L ELSE sp.R)]
       /\ epmatrix = EPMatrixNew(1, IF sp.same THEN 1 ELSE 2)
       /\ elmats = [i \in Idx(GetNE(sp.R.mesh)) |->
                      ElMatOf(s + i, t, Size(FesGetElementDofs(sp.R, i)))]
  /\ asm = [pc |-> "start", i |-> 0, fill |-> QZero, acc |-> << >>,
            added |-> [a \in AccNames |-> 0], finalized |-> {}]
  /\ fx = << >>
  /\ fy = << >>
  /\ mcall = "none"
  /\ mstat = "ok"
  /\ CallerIdle
  /\ FieldIdle
  /\ ParIdle
  /\ AccIdle
  /\ PmIdle
  /\ RetIdle /\ NormIdle /\ GeomIdle /\ JouleIdle

NextAssemble ==
  \/ \E fill \in Fills :
       AssembleBegin(fill) /\ UNCHANGED <<ExpDoFs, PriOffset, numPri, fieldVars, parVars, accVars, pmVars, pret, normVars, geomVars, jouleVars>>
  \/ AssembleTurn /\ UNCHANGED <<ExpDoFs, PriOffset, numPri, fieldVars, parVars, accVars, pmVars, pret, normVars, geomVars, jouleVars>>
  \/ AssembleFinalize /\ UNCHANGED <<ExpDoFs, PriOffset, numPri, fieldVars, parVars, accVars, pmVars, pret, normVars, geomVars, jouleVars>>
  \/ \E x \in FieldInputs(epdofs[epmatrix.epdofsR_]), fill \in Fills :
       Mult(x, fill) /\ UNCHANGED asmVars /\ UNCHANGED <<ExpDoFs, PriOffset, numPri, fieldVars, parVars, accVars, pmVars, pret, normVars, geomVars, jouleVars>>
  \/ \E x \in FieldInputs(epdofs[epmatrix.epdofsR_]) :
       ReducedRHS(x) /\ UNCHANGED asmVars /\ UNCHANGED <<ExpDoFs, PriOffset, numPri, fieldVars, parVars, accVars, pmVars, pret, normVars, geomVars, jouleVars>>
  \/ \E fill \in Fills :
       SolveReduced(fill) /\ UNCHANGED asmVars /\ UNCHANGED <<ExpDoFs, PriOffset, numPri, fieldVars, parVars, accVars, pmVars, pret, normVars, geomVars, jouleVars>>
  \/ SolvePrivateDoFs /\ UNCHANGED asmVars /\ UNCHANGED <<ExpDoFs, PriOffset, numPri, fieldVars, parVars, accVars, pmVars, pret, normVars, geomVars, jouleVars>>

SpecAssemble == InitAssemble /\ [][NextAssemble]_vars

(***************************************************************************)
(* The operator the split stands for.                                       *)
(***************************************************************************)
\* the interleaved vector of a field: exposed dofs first, then the private
\* dofs in element order
Interleave(d, f) ==
  [g \in Idx(GetNDofs(d.fes_)) |->
     IF g < d.nExposedDofs_ THEN ExposedOf(f)[g] ELSE PrivateOf(f)[g - d.nExposedDofs_]]

\* the element matrices added through the full dof lists of the spaces
RECURSIVE FullOperator(_, _, _, _)
FullOperator(fesL, fesR, els, n) ==
  IF n = 0 THEN ZeroMat(GetNDofs(fesL), GetNDofs(fesR))
  ELSE Bind(<<FullOperator(fesL, fesR, els, n - 1),
              FesGetElementDofs(fesL, n - 1), FesGetElementDofs(fesR, n - 1)>>,
            LAMBDA t : AddEntries(t[1], SubEntries(t[2], t[3], els[n - 1])))

\* mee - mep mpp^-1 mpe of an element matrix with nE exposed and nP private dofs
SchurBlock(elmat, nE, nP) ==
  Bind(Inverse(CopyMN(elmat, nP, nP, nE, nE), nP), LAMBDA inv :
    [i \in Idx(nE) |-> [j \in Idx(nE) |->
       QSub[elmat[i][j],
            QSum([k \in Idx(nP * nP) |->
                    QMul[QMul[elmat[i][nE + (k \div nP)], inv[k \div nP][k % nP]],
                         elmat[nE + (k % nP)][j]]])]]])

\* the blocks of all elements scattered through the exposed-dof table
RECURSIVE SchurSum(_, _, _)
SchurSum(d, els, n) ==
  IF n = 0 THEN ZeroMat(d.nExposedDofs_, d.nExposedDofs_)
  ELSE Bind(<<SchurSum(d, els, n - 1), ElementDofsOf(d, n - 1)>>, LAMBDA t :
         Bind(SchurBlock(els[n - 1], Size(t[2]),
                         Deref(d.priOffset_)[n] - Deref(d.priOffset_)[n - 1]),
              LAMBDA blk : AddEntries(t[1], SubEntries(t[2], t[2], blk))))

SameSides == epmatrix # << >> /\ epmatrix.epdofsL_ = epmatrix.epdofsR_

\* C3: after Assemble with left == right the reduced matrix is the sum over
\* the elements of mee - mep mpp^-1 mpe scattered through the exposed-dof
\* table, whatever the number of private dofs of an element
C3_ReducedIsSchurSum ==
  (SameSides /\ mcall = "Assemble" /\ mstat = "ok") =>
    Deref(epmatrix.Mrr_) =
      SchurSum(epdofs[1], elmats, GetNElements(epdofs[1]))

\* C4: Mult through the split gives what the full operator gives on the
\* interleaved vector, for every element matrix and every pairing
C4_MultIsFullOperator ==
  (mcall = "Mult" /\ mstat # "crashed") =>
    LET dL == epdofs[epmatrix.epdofsL_]
        dR == epdofs[epmatrix.epdofsR_]
    IN  Interleave(dL, fy) =
          MatVec(FullOperator(dL.fes_, dR.fes_, elmats, GetNElements(dR)),
                 GetNDofs(dR.fes_), Interleave(dR, fx))

\* C5: with left == right, ReducedRHS, the solve of the reduced system and
\* SolvePrivateDoFs leave in y.private the private values of the solution of
\* the full system
C5_PrivateRecovered ==
  (SameSides /\ mcall = "SolvePrivateDoFs" /\ mstat = "ok") =>
    LET d == epdofs[1]
        n == GetNDofs(d.fes_)
    IN  \A A \in Val(FullOperator(d.fes_, d.fes_, elmats, GetNElements(d))) :
          Invertible(A, n) =>
            \A z \in Val(SolveVec(A, n, Interleave(d, fx))) :
              \A k \in Idx(d.nPrivateDofs_) : PrivateOf(fy)[k] = z[d.nExposedDofs_ + k]

\* every element matrix is symmetric (and, being strictly diagonally dominant
\* with a positive diagonal, positive definite)
SymmetricElmats ==
  \A e \in DOMAIN elmats : \A i, j \in DOMAIN elmats[e] :
    elmats[e][i][j] = elmats[e][j][i]

\* one quadrilateral with 4 corner dofs and 1 interior dof, assembled
QuadAssembled ==
  /\ SameSides
  /\ mcall = "Assemble"
  /\ epdofs[1].fes_.mesh = MeshQuad1
  /\ epdofs[1].fes_.fec = Fec(1, 0, 0, 1, 0, FALSE)
  /\ SymmetricElmats

\* C7: for one quadrilateral with 4 corner dofs and 1 interior dof the
\* partition has 4 exposed and 1 private dof and, for a symmetric positive
\* definite element matrix A, Mrr is A_ee - A_ep A_pp^-1 A_pe
C7_QuadSchur ==
  QuadAssembled =>
    /\ epdofs[1].nExposedDofs_ = 4
    /\ epdofs[1].nPrivateDofs_ = 1
    /\ mstat = "ok"
    /\ Deref(epmatrix.Mrr_) =
         [i \in Idx(4) |-> [j \in Idx(4) |->
            QSub[elmats[0][i][j],
                 QDiv[QMul[elmats[0][i][4], elmats[0][4][j]], elmats[0][4][4]]]]]

C7_Witness ==
  /\ QuadAssembled
  /\ Deref(epmatrix.Mrr_) # Deref(epmatrix.Mee_)

\* C9: ReducedRHS on a left # right pairing ends in the fatal error
\* UnsupportedConfiguration
C9_Unsupported ==
  (epmatrix # << >> /\ ~SameSides /\ mcall = "ReducedRHS") =>
    mstat = "UnsupportedConfiguration"

(***************************************************************************)
(* ParEPDoFs, ParEPField: the exposed dofs across the ranks.  Every rank    *)
(* runs the same code on its own rows; the objects of all ranks are kept    *)
(* by rank.                                                                 *)
(***************************************************************************)
\* the members of a finite set of integers in ascending order
Ascending(S) ==
  [k \in Idx(Cardinality(S)) |-> CHOOSE g \in S : Cardinality({h \in S : h < g}) = k]

\* the place of g in the array a
IndexIn(a, g) == CHOOSE k \in DOMAIN a : a[k] = g

RECURSIVE SumUpTo(_, _)
SumUpTo(f, p) == IF p = 0 THEN 0 ELSE SumUpTo(f, p - 1) + f[p - 1]

\* part[0] = 0, part[p] += part[p-1]
PrefixSums(f, n) == [p \in 0..n |-> SumUpTo(f, p)]

\* pfes_->Dof_TrueDof_Matrix() of a conforming space: share[g] are the ranks
\* holding exposed dof g, which the lowest of them owns, and npri[p] is the
\* number of private dofs of rank p.  A rank numbers its exposed dofs before
\* its private ones; every row has one nonzero, 1.0, in the column of the
\* true dof.
ParSpace(share, npri) ==
  LET n        == Size(npri)
      LocalE   == [p \in Idx(n) |-> Ascending({g \in DOMAIN share : p \in share[g]})]
      Owner    == [g \in DOMAIN share |-> CHOOSE q \in share[g] : \A r \in share[g] : q <= r]
      OwnedE   == [q \in Idx(n) |-> Ascending({g \in DOMAIN share : Owner[g] = q})]
      TDoFPart == PrefixSums([q \in Idx(n) |-> Size(OwnedE[q]) + npri[q]], n)
  IN  [numProcs |-> n,
       nExposed |-> [p \in Idx(n) |-> Size(LocalE[p])],
       nPrivate |-> npri,
       DoFPart  |-> PrefixSums([p \in Idx(n) |-> Size(LocalE[p]) + npri[p]], n),
       TDoFPart |-> TDoFPart,
       J        |-> [p \in Idx(n) |-> [i \in Idx(Size(LocalE[p]) + npri[p]) |->
                      IF i < Size(LocalE[p])
                      THEN TDoFPart[Owner[LocalE[p][i]]]
                             + IndexIn(OwnedE[Owner[LocalE[p][i]]], LocalE[p][i])
                      ELSE TDoFPart[p] + Size(OwnedE[p]) + (i - Size(LocalE[p]))]],
       Data     |-> [p \in Idx(n) |-> [i \in Idx(Size(LocalE[p]) + npri[p]) |-> QOne]]]

\* the operator with the column of row i of rank p at the last boundary
WithColumnOutside(pf, p, i) == [pf EXCEPT !.J[p][i] = pf.TDoFPart[pf.numProcs]]

\* the scan with r left at 0
ScanRankNone(J, TDoFPart, numProcs) == 0

\* while ( J >= TDoFPart[r+1] ) r++ : the r the scan stops at; numProcs when
\* no boundary of the array is above J, the scan then reads past the array
ScanRank(J, TDoFPart, numProcs) ==
  LET fit == {r \in Idx(numProcs) : J < TDoFPart[r + 1]}
  IN  IF fit = {} THEN numProcs ELSE CHOOSE r \in fit : \A q \in fit : r <= q

\* for (p < r) J -= nPri[p]; past the arrays junk more is taken off
CompactColumn(J, TDoFPart, nPri, numProcs, junk) ==
  LET r == ScanRank(J, TDoFPart, numProcs)
  IN  IF r < numProcs THEN J - SumUpTo(nPri, r)
      ELSE J - SumUpTo(nPri, numProcs) - junk

\* nPri[p] with the exposed dofs of the rank left in
NPriRowsOnly(DoFPart, ExposedPart, n) ==
  [p \in Idx(n) |-> DoFPart[p + 1] - DoFPart[p]]

\* nPri[p] = (DoFPart[p+1] - DoFPart[p]) - (ExposedPart_[p+1] - ExposedPart_[p])
NPri(DoFPart, ExposedPart, n) ==
  [p \in Idx(n) |-> (DoFPart[p + 1] - DoFPart[p]) - (ExposedPart[p + 1] - ExposedPart[p])]

\* ParEPDoFs::ParEPDoFs on every rank: the partitions, the rewritten columns
\* and the highest index of TDoFPart read
ParEPDoFsOf(pf, junk) ==
  LET n == pf.numProcs
  IN  Bind(PrefixSums(pf.nExposed, n), LAMBDA ExposedPart :
      Bind(NPri(pf.DoFPart, ExposedPart, n), LAMBDA nPri :
        Bind(PrefixSums([p \in Idx(n) |->
                           (pf.TDoFPart[p + 1] - pf.TDoFPart[p]) - nPri[p]], n),
             LAMBDA TExposedPart :
          [ranks |->
             [myRank \in Idx(n) |->
                [nExposedDofs_    |-> pf.nExposed[myRank],
                 nPrivateDofs_    |-> pf.nPrivate[myRank],
                 ExposedPart_     |-> Ptr(ExposedPart),
                 TExposedPart_    |-> Ptr(TExposedPart),
                 nParExposedDofs_ |-> TExposedPart[myRank + 1] - TExposedPart[myRank],
                 Pe_ |-> Ptr([i \in Idx(ExposedPart[myRank + 1] - ExposedPart[myRank]) |->
                                [col  |-> CompactColumn(pf.J[myRank][i], pf.TDoFPart,
                                                        nPri, n, junk),
                                 data |-> pf.Data[myRank][i]]])]],
           read |->
             LET top == UNION {{ScanRank(pf.J[p][i], pf.TDoFPart, n) + 1 :
                                  i \in DOMAIN pf.J[p]} : p \in Idx(n)}
             IN  CHOOSE m \in top : \A k \in top : k <= m])))

\* the construction of the ParEPDoFs of all ranks (MPI_Allgather joins them)
ParEPDoFsNew(junk) ==
  /\ pcall = "none"
  /\ \E o \in Val(ParEPDoFsOf(pfes, junk)) :
       /\ pepdofs' = o.ranks
       /\ pread' = o.read
       /\ pstat' \in (IF o.read > pfes.numProcs THEN {"undefined", "crashed"} ELSE {"ok"})
  /\ pcall' = "ParEPDoFs"
  /\ UNCHANGED <<pfes, pfield, pOnce, nreduce>>

\* EPField::initVectors(1) and ParEPField::initVectors(1) on every rank
ParInitVectors(fill) ==
  /\ pcall = "ParEPDoFs" /\ pstat = "ok"
  /\ pfield' =
       [p \in DOMAIN pepdofs |->
          LET part == Deref(pepdofs[p].TExposedPart_)
          IN  [numFields_      |-> 1,
               ExposedDoFs_    |-> Ptr([f \in Idx(1) |-> NewVector(pepdofs[p].nExposedDofs_, fill)]),
               PrivateDoFs_    |-> Ptr([f \in Idx(1) |-> NewVector(pepdofs[p].nPrivateDofs_, fill)]),
               ParExposedDoFs_ |-> Ptr([f \in Idx(1) |-> NewVector(part[p + 1] - part[p], fill)])]]
  /\ pcall' = "initVectors"
  /\ UNCHANGED <<pfes, pepdofs, pread, pOnce, nreduce, pstat>>

\* the local exposed values a rank computed, as EPMatrix::Mult leaves them
\* in y before ParEPMatrix::Mult reduces them
WriteExposed(a, b) ==
  /\ pcall = "initVectors"
  /\ pfield' =
       [p \in DOMAIN pfield |->
          [pfield[p] EXCEPT !.ExposedDoFs_ =
             Ptr([f \in Idx(1) |->
                    [i \in Idx(pepdofs[p].nExposedDofs_) |-> QI(a * (i + 1) + b + p)]])]]
  /\ pcall' = "WriteExposed"
  /\ UNCHANGED <<pfes, pepdofs, pread, pOnce, nreduce, pstat>>

\* Pe->MultTranspose with the rows of the other ranks left out
PeMultTransposeLocalOnly(pe, xs, tpart, n) ==
  [q \in Idx(n) |-> [k \in Idx(tpart[q + 1] - tpart[q]) |->
     QSum([i \in DOMAIN pe[q] |->
             IF pe[q][i].col = tpart[q] + k
             THEN QMul[pe[q][i].data, xs[q][i]] ELSE QZero])]]

\* Pe->MultTranspose(x, y): every true dof gets the sum of the rows of all
\* ranks that name it; the result by owning rank
PeMultTranspose(pe, xs, tpart, n) ==
  [q \in Idx(n) |-> [k \in Idx(tpart[q + 1] - tpart[q]) |->
     QSum([p \in Idx(n) |->
             QSum([i \in DOMAIN pe[p] |->
                     IF pe[p][i].col = tpart[q] + k
                     THEN QMul[pe[p][i].data, xs[p][i]] ELSE QZero])])]]

\* the value of true dof t in the vector kept by owning rank
TrueValue(ys, tpart, n, t) ==
  LET q == CHOOSE r \in Idx(n) : tpart[r] <= t /\ t < tpart[r + 1]
  IN  ys[q][t - tpart[q]]

\* Pe->Mult(y, x): every local dof gets the value of its true dof
PeMult(pe, ys, tpart, n) ==
  [p \in Idx(n) |-> [i \in DOMAIN pe[p] |->
     QMul[pe[p][i].data, TrueValue(ys, tpart, n, pe[p][i].col)]]]

MaxReduce == 2

\* ParEPField::updateParExposedDoFs() on every rank
updateParExposedDoFs ==
  LET n     == pfes.numProcs
      pe    == [p \in Idx(n) |-> Deref(pepdofs[p].Pe_)]
      tpart == Deref(pepdofs[0].TExposedPart_)
      xs    == [p \in Idx(n) |-> Deref(pfield[p].ExposedDoFs_)[0]]
  IN  /\ pcall \in {"WriteExposed", "updateParExposedDoFs"}
      /\ nreduce < MaxReduce
      /\ \E T \in Val(PeMultTranspose(pe, xs, tpart, n)) :
           \E E \in Val(PeMult(pe, T, tpart, n)) :
             \E after \in Val([p \in Idx(n) |->
                   [pfield[p] EXCEPT !.ParExposedDoFs_ = Ptr([f \in Idx(1) |-> T[p]]),
                                     !.ExposedDoFs_ = Ptr([f \in Idx(1) |-> E[p]])]]) :
               /\ pfield' = after
               /\ pOnce' = IF nreduce = 0 THEN after ELSE pOnce
      /\ nreduce' = nreduce + 1
      /\ pcall' = "updateParExposedDoFs"
      /\ UNCHANGED <<pfes, pepdofs, pread, pstat>>

\* the true-exposed values a solver computed, written through
\* ParExposedDoFs(0) before updateExposedDoFs hands them to the ranks
WriteParExposed(a, b) ==
  /\ pcall \in {"initVectors", "WriteExposed", "updateParExposedDoFs"}
  /\ pfield' =
       [p \in DOMAIN pfield |->
          [pfield[p] EXCEPT !.ParExposedDoFs_ =
             Ptr([f \in Idx(1) |->
                    [k \in Idx(pepdofs[p].nParExposedDofs_) |->
                       QI(a * (k + 1) + b + 3 * p + 5)]])]]
  /\ pcall' = "WriteParExposed"
  /\ UNCHANGED <<pfes, pepdofs, pread, pOnce, nreduce, pstat>>

\* updateExposedDoFs with the sum of updateParExposedDoFs before the
\* redistribution
updateExposedDoFsSumming ==
  LET n     == pfes.numProcs
      pe    == [p \in Idx(n) |-> Deref(pepdofs[p].Pe_)]
      tpart == Deref(pepdofs[0].TExposedPart_)
      xs    == [p \in Idx(n) |-> Deref(pfield[p].ExposedDoFs_)[0]]
  IN  /\ pcall \in {"WriteExposed", "WriteParExposed", "updateParExposedDoFs",
                    "updateExposedDoFs"}
      /\ \E T \in Val(PeMultTranspose(pe, xs, tpart, n)) :
           \E E \in Val(PeMult(pe, T, tpart, n)) :
             pfield' = [p \in Idx(n) |->
                   [pfield[p] EXCEPT !.ParExposedDoFs_ = Ptr([f \in Idx(1) |-> T[p]]),
                                     !.ExposedDoFs_ = Ptr([f \in Idx(1) |-> E[p]])]]
      /\ pcall' = "updateExposedDoFs"
      /\ UNCHANGED <<pfes, pepdofs, pread, pOnce, nreduce, pstat>>

\* ParEPField::updateExposedDoFs() on every rank
updateExposedDoFs ==
  LET n     == pfes.numProcs
      pe    == [p \in Idx(n) |-> Deref(pepdofs[p].Pe_)]
      tpart == Deref(pepdofs[0].TExposedPart_)
      ys    == [p \in Idx(n) |-> Deref(pfield[p].ParExposedDoFs_)[0]]
  IN  /\ pcall \in {"WriteExposed", "WriteParExposed", "updateParExposedDoFs",
                    "updateExposedDoFs"}
      /\ \E E \in Val(PeMult(pe, ys, tpart, n)) :
           pfield' = [p \in Idx(n) |->
                        [pfield[p] EXCEPT !.ExposedDoFs_ = Ptr([f \in Idx(1) |-> E[p]])]]
      /\ pcall' = "updateExposedDoFs"
      /\ UNCHANGED <<pfes, pepdofs, pread, pOnce, nreduce, pstat>>

(***************************************************************************)
(* The distributed partition and field under their calls.                   *)
(***************************************************************************)
MaxPri == 2

MaxJunk == 1

\* which ranks hold which exposed dof: one rank, two and three ranks in a
\* row, three ranks around a common dof
SharePatterns ==
  {Arr(<<{0}, {0}>>),
   Arr(<<{0}, {0, 1}, {1}>>),
   Arr(<<{0}, {0, 1}, {1, 2}, {2}>>),
   Arr(<<{0}, {0, 1, 2}, {1}, {2}, {1, 2}>>)}

\* the number of ranks of a pattern
RanksOf(share) == 1 + CHOOSE m \in UNION {share[g] : g \in DOMAIN share} :
                        \A r \in UNION {share[g] : g \in DOMAIN share} : r <= m

\* the largest number of field copies of a field
MaxFields == 2

\* the non-const ExposedDoFs(0) as the first call on a new ParEPField, on
\* every rank: it allocates with EPField::initVectors(num), num the default
\* count, and leaves ParExposedDoFs_ as the constructor set it
ParFirstExposedDoFs(num, fill) ==
  /\ pcall = "ParEPDoFs" /\ pstat = "ok"
  /\ pfield' =
       [p \in DOMAIN pepdofs |->
          LET f == InitVectors(pepdofs[p], num, fill)
          IN  [numFields_      |-> f.numFields_,
               ExposedDoFs_    |-> f.ExposedDoFs_,
               PrivateDoFs_    |-> f.PrivateDoFs_,
               ParExposedDoFs_ |-> NULL]]
  /\ pcall' = "ExposedDoFs"
  /\ UNCHANGED <<pfes, pepdofs, pread, pOnce, nreduce, pstat>>

\* |a|
QAbs[a \in Rat] == <<Abs(a[1]), a[2]>>

\* (tmp > norm) ? tmp : norm
QMax(tmp, norm) == IF tmp[1] * norm[2] > norm[1] * tmp[2] THEN tmp ELSE norm

\* the maximum of f[0] .. f[n-1] and of start, taken in order
RECURSIVE QMaxTo(_, _, _)
QMaxTo(f, n, start) ==
  IF n = 0 THEN start ELSE QMax(f[n - 1], QMaxTo(f, n - 1, start))

\* sqrt(a) for a >= 0, kept as the number it is the root of, and its square
Sqrt(a) == [sqrt |-> a]

Sq(r) == r.sqrt

\* Vector::Norml2(), Vector::Normlinf()
VectorNorml2(v) == Sqrt(QSum([i \in DOMAIN v |-> QMul[v[i], v[i]]]))

VectorNormlinf(v) == QMaxTo([i \in DOMAIN v |-> QAbs[v[i]]], Size(v), QZero)

\* MPI_Allreduce(.., MPI_SUM, ..) and MPI_Allreduce(.., MPI_MAX, ..) of the
\* values xs the ranks bring
AllreduceSum(xs) == QSum(xs)

AllreduceMax(xs) == QMaxTo(xs, Size(xs), xs[0])

\* MyHypreParVector::Norml2() and Normlinf() of the vector whose local parts
\* are vs
MyHypreParVectorNorml2(vs) ==
  Sqrt(AllreduceSum([p \in DOMAIN vs |-> Sq(VectorNorml2(vs[p]))]))

MyHypreParVectorNormlinf(vs) ==
  AllreduceMax([p \in DOMAIN vs |-> VectorNormlinf(vs[p])])

\* ParEPField::Norml2() on the ranks that hold the parts fs of the field
ParEPFieldNorml2(fs) ==
  LET N      == fs[0].numFields_
      loc(p) == QSum([i \in Idx(N) |-> Sq(VectorNorml2(Deref(fs[p].PrivateDoFs_)[i]))])
      tmp    == AllreduceSum([p \in DOMAIN fs |-> loc(p)])
      par(i) == Sq(MyHypreParVectorNorml2(
                     [p \in DOMAIN fs |-> Deref(fs[p].ParExposedDoFs_)[i]]))
  IN  Sqrt(QAdd[tmp, QSum([i \in Idx(N) |-> par(i)])])

\* ParEPField::Normlinf() on the ranks that hold the parts fs of the field
ParEPFieldNormlinf(fs) ==
  LET N      == fs[0].numFields_
      loc(p) == QMaxTo([i \in Idx(N) |-> VectorNormlinf(Deref(fs[p].PrivateDoFs_)[i])],
                       N, QZero)
      tmp    == AllreduceMax([p \in DOMAIN fs |-> loc(p)])
      par(i) == MyHypreParVectorNormlinf(
                  [p \in DOMAIN fs |-> Deref(fs[p].ParExposedDoFs_)[i]])
  IN  QMaxTo([i \in Idx(N) |-> par(i)], N, tmp)

\* the collectives a rank issues in Norml2 or Normlinf: one on the
\* communicator of the partition, then one for every field copy in the norm
\* of its true-exposed vector
NormCollectives(f, op) ==
  [k \in 1..(1 + f.numFields_) |->
     IF k = 1 THEN <<op, "pepdofs_->GetComm()">> ELSE <<op, "ParExposedDoFs_", k - 2>>]

\* ParEPField::Norml2() (op = MPI_SUM) or Normlinf() (op = MPI_MAX), called
\* on every rank; ParExposedDoFs_[i] is read without a test of the array
ParNorm(op) ==
  /\ pfield # << >> /\ pstat = "ok"
  /\ pcall \in {"initVectors", "ExposedDoFs", "WriteExposed", "updateParExposedDoFs",
                "WriteParExposed", "updateExposedDoFs"}
  /\ pcall' = (IF op = "MPI_SUM" THEN "Norml2" ELSE "Normlinf")
  /\ IF \E p \in DOMAIN pfield :
          pfield[p].numFields_ > 0 /\ pfield[p].ParExposedDoFs_ = NULL
     THEN /\ pstat' \in {"undefined", "crashed"}
          /\ pnorm' = << >>
          /\ pcoll' = [p \in DOMAIN pfield |-> <<<<op, "pepdofs_->GetComm()">>>>]
     ELSE /\ pstat' = pstat
          /\ pnorm' = [p \in DOMAIN pfield |->
                         IF op = "MPI_SUM" THEN ParEPFieldNorml2(pfield)
                         ELSE ParEPFieldNormlinf(pfield)]
          /\ pcoll' = [p \in DOMAIN pfield |-> NormCollectives(pfield[p], op)]
  /\ UNCHANGED <<pfes, pepdofs, pread, pfield, pOnce, nreduce>>

Norml2 == ParNorm("MPI_SUM")

Normlinf == ParNorm("MPI_MAX")

InitPar ==
  /\ \E share \in SharePatterns, k \in 0..MaxPri :
       \E pf \in Val(ParSpace(share, [p \in Idx(RanksOf(share)) |-> (k + p) % (MaxPri + 1)])) :
         \/ pfes = pf
         \/ \E p \in Idx(pf.numProcs) : pfes = WithColumnOutside(pf, p, 0)
  /\ pepdofs = << >>
  /\ pread = 0
  /\ pfield = << >>
  /\ pOnce = << >>
  /\ nreduce = 0
  /\ pcall = "none"
  /\ pstat = "ok"
  /\ epdofs = << >>
  /\ CallerIdle
  /\ FieldIdle
  /\ MatIdle
  /\ AccIdle
  /\ PmIdle
  /\ RetIdle /\ NormIdle /\ AsmIdle /\ GeomIdle /\ JouleIdle

NextPar ==
  \/ \E junk \in 0..MaxJunk :
       ParEPDoFsNew(junk) /\ UNCHANGED <<dofsVars, fieldVars, matVars, accVars, pmVars, pret, normVars, asmVars, geomVars, jouleVars>>
  \/ \E fill \in Fills :
       ParInitVectors(fill) /\ UNCHANGED <<dofsVars, fieldVars, matVars, accVars, pmVars, pret, normVars, asmVars, geomVars, jouleVars>>
  \/ \E a \in {-MaxSlope, MaxSlope}, b \in {0, 1} :
       WriteExposed(a, b) /\ UNCHANGED <<dofsVars, fieldVars, matVars, accVars, pmVars, pret, normVars, asmVars, geomVars, jouleVars>>
  \/ updateParExposedDoFs /\ UNCHANGED <<dofsVars, fieldVars, matVars, accVars, pmVars, pret, normVars, asmVars, geomVars, jouleVars>>
  \/ \E a \in {-MaxSlope, MaxSlope}, b \in {0, 1} :
       WriteParExposed(a, b) /\ UNCHANGED <<dofsVars, fieldVars, matVars, accVars, pmVars, pret, normVars, asmVars, geomVars, jouleVars>>
  \/ updateExposedDoFs /\ UNCHANGED <<dofsVars, fieldVars, matVars, accVars, pmVars, pret, normVars, asmVars, geomVars, jouleVars>>
  \/ \E num \in 1..MaxFields, fill \in Fills :
       ParFirstExposedDoFs(num, fill) /\ UNCHANGED <<dofsVars, fieldVars, matVars, accVars, pmVars, pret, normVars, asmVars, geomVars, jouleVars>>
  \/ Norml2 /\ UNCHANGED <<dofsVars, fieldVars, matVars, accVars, pmVars, pret, asmVars, geomVars, jouleVars>>
  \/ Normlinf /\ UNCHANGED <<dofsVars, fieldVars, matVars, accVars, pmVars, pret, asmVars, geomVars, jouleVars>>

SpecPar == InitPar /\ [][NextPar]_vars

\* the number of rows, over all ranks, that name true dof t
Copies(t) ==
  Cardinality({pi \in UNION {{<<p, i>> : i \in DOMAIN Deref(pepdofs[p].Pe_)} :
                                p \in DOMAIN pepdofs} :
                 Deref(pepdofs[pi[1]].Pe_)[pi[2]].col = t})

\* updateParExposedDoFs has run twice
ReducedTwice == nreduce = 2 /\ pcall = "updateParExposedDoFs"

\* C6 as stated: reduce() is idempotent, a second call leaves the local
\* exposed and the true-exposed values of every rank as the first left them
C6_Idempotent == ReducedTwice => pfield = pOnce

\* C6 as amended: a second reduce() leaves the values of an exposed dof held
\* by one rank as the first left them and multiplies those of an exposed dof
\* held by m ranks by m
C6_IdempotentUnshared ==
  ReducedTwice =>
    \A p \in DOMAIN pfield :
      LET tpart == Deref(pepdofs[p].TExposedPart_)
      IN  /\ \A i \in DOMAIN Deref(pepdofs[p].Pe_) :
               Deref(pfield[p].ExposedDoFs_)[0][i] =
                 QMul[QI(Copies(Deref(pepdofs[p].Pe_)[i].col)),
                      Deref(pOnce[p].ExposedDoFs_)[0][i]]
          /\ \A k \in DOMAIN Deref(pfield[p].ParExposedDoFs_)[0] :
               Deref(pfield[p].ParExposedDoFs_)[0][k] =
                 QMul[QI(Copies(tpart[p] + k)), Deref(pOnce[p].ParExposedDoFs_)[0][k]]

C6_Witness ==
  /\ ReducedTwice
  /\ \E p \in DOMAIN pfield : \E k \in DOMAIN Deref(pfield[p].ParExposedDoFs_)[0] :
       /\ Copies(Deref(pepdofs[p].TExposedPart_)[p] + k) >= 2
       /\ Deref(pOnce[p].ParExposedDoFs_)[0][k] # QZero
  /\ \E p \in DOMAIN pfield : \E k \in DOMAIN Deref(pfield[p].ParExposedDoFs_)[0] :
       Copies(Deref(pepdofs[p].TExposedPart_)[p] + k) = 1

\* some nonzero of the unreduced operator has its column at or above the
\* last boundary of the column partition
ColumnOutside ==
  /\ pfes # << >>
  /\ \E p \in DOMAIN pfes.J : \E i \in DOMAIN pfes.J[p] :
       pfes.J[p][i] >= pfes.TDoFPart[pfes.numProcs]

\* C10: a column in no rank's range ends the construction with the fatal
\* error PartitionInconsistency, and the scan reads no entry past
\* TDoFPart[numProcs]
C10_PartitionChecked ==
  (ColumnOutside /\ pcall # "none") =>
    (pstat = "PartitionInconsistency" /\ pread <= pfes.numProcs)

(***************************************************************************)
(* The accessors of EPField and ParEPField.  A ParEPField is an EPField:   *)
(* the four accessors of EPField run on it unchanged.  The vectors are      *)
(* allocated by EPField::initVectors and ParEPField::initVectors only; the *)
(* non-const accessors call initVectors() with the default argument of the *)
(* declaration, which ParEPField::initFromInterleavedVector relies on to   *)
(* be one field copy or more.                                               *)
(***************************************************************************)
\* ParEPField::ParEPField(pepdofs): d holds the sizes the partition reports
ParEPFieldNew(d) ==
  [numFields_ |-> 0, epdofs_ |-> d, ExposedDoFs_ |-> NULL, PrivateDoFs_ |-> NULL,
   ParExposedDoFs_ |-> NULL]

\* EPField::initVectors(num) on the field f
EPFieldInitVectors(f, num, fill) ==
  [f EXCEPT !.numFields_ = num,
            !.ExposedDoFs_ = Ptr([i \in Idx(num) |-> NewVector(f.epdofs_.nExposedDofs_, fill)]),
            !.PrivateDoFs_ = Ptr([i \in Idx(num) |-> NewVector(f.epdofs_.nPrivateDofs_, fill)])]

\* ParEPField::initVectors(num) on the field f: numFields_ is left alone
ParEPFieldInitVectors(f, num, fill) ==
  [f EXCEPT !.ParExposedDoFs_ =
     Ptr([i \in Idx(num) |-> NewVector(f.epdofs_.nParExposedDofs_, fill)])]

\* what an accessor hands back: the field after the call, the pointer
\* returned, the line written to std::cerr, and whether an array was read
\* outside its entries
Returned(f, ret, log) == [f |-> f, ret |-> ret, log |-> log, undef |-> FALSE]

\* return(a[i]) for an array a of pointers to vectors
ReturnEntry(f, a, i) ==
  IF i \in DOMAIN Deref(a) THEN Returned(f, Ptr(Deref(a)[i]), "")
  ELSE [f |-> f, ret |-> NULL, log |-> "", undef |-> TRUE]

\* const Vector * EPField::ExposedDoFs(i) const
ExposedDoFsConst(f, i) ==
  IF i >= f.numFields_ THEN Returned(f, NULL, "Invalid Field index requested.")
  ELSE IF f.ExposedDoFs_ = NULL THEN Returned(f, NULL, "Internal Vector is NULL.")
  ELSE ReturnEntry(f, f.ExposedDoFs_, i)

\* ExposedDoFs(i) without the call of initVectors()
ExposedDoFsNoInit(f, i, num, fill) ==
  IF i >= f.numFields_ THEN Returned(f, NULL, "Invalid Field index requested.")
  ELSE IF f.ExposedDoFs_ = NULL THEN [f |-> f, ret |-> NULL, log |-> "", undef |-> TRUE]
  ELSE ReturnEntry(f, f.ExposedDoFs_, i)

\* Vector * EPField::ExposedDoFs(i)
ExposedDoFs(f, i, num, fill) ==
  LET g == IF f.ExposedDoFs_ = NULL THEN EPFieldInitVectors(f, num, fill) ELSE f
  IN  IF i >= g.numFields_ THEN Returned(g, NULL, "Invalid Field index requested.")
      ELSE ReturnEntry(g, g.ExposedDoFs_, i)

\* const Vector * EPField::PrivateDoFs(i) const
PrivateDoFsConst(f, i) ==
  IF i >= f.numFields_ THEN Returned(f, NULL, "Invalid Field index requested.")
  ELSE IF f.PrivateDoFs_ = NULL THEN Returned(f, NULL, "Internal Vector is NULL.")
  ELSE ReturnEntry(f, f.PrivateDoFs_, i)

\* Vector * EPField::PrivateDoFs(i)
PrivateDoFs(f, i, num, fill) ==
  LET g == IF f.PrivateDoFs_ = NULL THEN EPFieldInitVectors(f, num, fill) ELSE f
  IN  IF i >= g.numFields_ THEN Returned(g, NULL, "Invalid Field index requested.")
      ELSE ReturnEntry(g, g.PrivateDoFs_, i)

\* ParExposedDoFs(i) const without the test of the index
ParExposedDoFsConstNoIndex(f, i) ==
  IF f.ParExposedDoFs_ = NULL THEN Returned(f, NULL, "Internal Vector is NULL.")
  ELSE ReturnEntry(f, f.ParExposedDoFs_, i)

\* const MyHypreParVector * ParEPField::ParExposedDoFs(i) const
ParExposedDoFsConst(f, i) ==
  IF i >= f.numFields_ THEN Returned(f, NULL, "Invalid Field index requested.")
  ELSE IF f.ParExposedDoFs_ = NULL THEN Returned(f, NULL, "Internal Vector is NULL.")
  ELSE ReturnEntry(f, f.ParExposedDoFs_, i)

\* MyHypreParVector * ParEPField::ParExposedDoFs(i)
ParExposedDoFs(f, i, num, fill) ==
  LET g == IF f.ParExposedDoFs_ = NULL THEN ParEPFieldInitVectors(f, num, fill) ELSE f
  IN  IF i >= g.numFields_ THEN Returned(g, NULL, "Invalid Field index requested.")
      ELSE ReturnEntry(g, g.ParExposedDoFs_, i)

\* the call name(i) made on the field, which hands back r
Accessed(name, i, r) ==
  /\ acall' = [name |-> name, i |-> i, before |-> afield]
  /\ afield' = r.f
  /\ aret' = [ret |-> r.ret, log |-> r.log, undef |-> r.undef]
  /\ UNCHANGED adefault

\* the accessors called with the index i
AccessConst(i) ==
  \/ Accessed("ExposedDoFs const", i, ExposedDoFsConst(afield, i))
  \/ Accessed("PrivateDoFs const", i, PrivateDoFsConst(afield, i))
  \/ Accessed("ParExposedDoFs const", i, ParExposedDoFsConst(afield, i))

Access(i, fill) ==
  \/ Accessed("ExposedDoFs", i, ExposedDoFs(afield, i, adefault, fill))
  \/ Accessed("PrivateDoFs", i, PrivateDoFs(afield, i, adefault, fill))
  \/ Accessed("ParExposedDoFs", i, ParExposedDoFs(afield, i, adefault, fill))

\* the members after EPField::initFromInterleavedVector(x): one field copy
\* whose vectors hold values of x, here a (j + 1) at place j of the dofs
FilledFromInterleaved(f, a, fill) ==
  LET g  == EPFieldInitVectors(f, 1, fill)
      nE == f.epdofs_.nExposedDofs_
  IN  [g EXCEPT !.ExposedDoFs_ = Ptr([i \in Idx(1) |-> [j \in Idx(nE) |-> QI(a * (j + 1))]]),
                !.PrivateDoFs_ = Ptr([i \in Idx(1) |->
                                        [k \in Idx(f.epdofs_.nPrivateDofs_) |->
                                           QI(a * (nE + k + 1))]])]

\* EPField::initFromInterleavedVector(x) on the field
AccInitFromInterleavedVector(a, fill) ==
  /\ afield' = FilledFromInterleaved(afield, a, fill)
  /\ acall' = [name |-> "EPField::initFromInterleavedVector", i |-> 0, before |-> afield]
  /\ aret' = [ret |-> NULL, log |-> "", undef |-> FALSE]
  /\ UNCHANGED adefault

\* ParEPField::initFromInterleavedVector(x) on the field: the copy of
\* EPField, then (*ParExposedDoFs(0))(j) = x(j) for the true exposed dofs
AccParInitFromInterleavedVector(a, fill) ==
  LET r == ParExposedDoFs(FilledFromInterleaved(afield, a, fill), 0, adefault, fill)
  IN  /\ afield' =
           IF r.ret = NULL THEN r.f
           ELSE [r.f EXCEPT !.ParExposedDoFs_ =
                   Ptr([i \in DOMAIN Deref(r.f.ParExposedDoFs_) |->
                          IF i = 0
                          THEN [j \in Idx(r.f.epdofs_.nParExposedDofs_) |-> QI(a * (j + 1))]
                          ELSE Deref(r.f.ParExposedDoFs_)[i]])]
      /\ acall' = [name |-> "ParEPField::initFromInterleavedVector", i |-> 0, before |-> afield]
      /\ aret' = [ret |-> NULL, log |-> "",
                  undef |-> r.undef \/ (r.ret = NULL /\ r.f.epdofs_.nParExposedDofs_ > 0)]
      /\ UNCHANGED adefault

(***************************************************************************)
(* A field under its accessors.                                             *)
(***************************************************************************)
\* the exposed, private and true exposed dofs of the partition of the field
AccSizes ==
  {[nExposedDofs_ |-> e, nPrivateDofs_ |-> p, nParExposedDofs_ |-> t] :
     e \in {2}, p \in {0, 1}, t \in {1, 2}}

InitAccess ==
  /\ afield \in {ParEPFieldNew(d) : d \in AccSizes}
  /\ adefault \in 1..MaxFields
  /\ acall = << >>
  /\ aret = << >>
  /\ epdofs = << >>
  /\ CallerIdle
  /\ FieldIdle
  /\ MatIdle
  /\ ParIdle
  /\ PmIdle
  /\ RetIdle /\ NormIdle /\ AsmIdle /\ GeomIdle /\ JouleIdle

NextAccess ==
  \/ \E i \in 0..MaxFields :
       AccessConst(i) /\ UNCHANGED <<dofsVars, fieldVars, matVars, parVars, pmVars, pret, normVars, asmVars, geomVars, jouleVars>>
  \/ \E i \in 0..MaxFields, fill \in Fills :
       Access(i, fill) /\ UNCHANGED <<dofsVars, fieldVars, matVars, parVars, pmVars, pret, normVars, asmVars, geomVars, jouleVars>>
  \/ \E a \in {-MaxSlope, MaxSlope}, fill \in Fills :
       AccInitFromInterleavedVector(a, fill)
         /\ UNCHANGED <<dofsVars, fieldVars, matVars, parVars, pmVars, pret, normVars, asmVars, geomVars, jouleVars>>
  \/ \E a \in {-MaxSlope, MaxSlope}, fill \in Fills :
       AccParInitFromInterleavedVector(a, fill)
         /\ UNCHANGED <<dofsVars, fieldVars, matVars, parVars, pmVars, pret, normVars, asmVars, geomVars, jouleVars>>

SpecAccess == InitAccess /\ [][NextAccess]_vars

ConstAccessors == {"ExposedDoFs const", "PrivateDoFs const", "ParExposedDoFs const"}

LazyAccessors == {"ExposedDoFs", "PrivateDoFs", "ParExposedDoFs"}

\* an accessor was the last call on the field
AccessorCalled == acall # << >> /\ acall.name \in ConstAccessors \cup LazyAccessors

\* the array of pointers of the field f the accessor name reads
ArrayAsked(f, name) ==
  CASE name \in {"ExposedDoFs const", "ExposedDoFs"} -> f.ExposedDoFs_
    [] name \in {"PrivateDoFs const", "PrivateDoFs"} -> f.PrivateDoFs_
    [] name \in {"ParExposedDoFs const", "ParExposedDoFs"} -> f.ParExposedDoFs_

\* C11: an accessor, const or not, asked for a field index at or above the
\* field count (numFields_ as the accessor tests it) returns NULL, reads no
\* array outside its entries and ends normally
C11_InvalidIndexNull ==
  (AccessorCalled /\ acall.i >= afield.numFields_) =>
    (aret.ret = NULL /\ ~aret.undef /\ aret.log = "Invalid Field index requested.")

\* C11 witness: a non-const accessor asked for the index just above the last
\* field copy of a field that has vectors
C11_Witness ==
  /\ AccessorCalled
  /\ acall.name = "ParExposedDoFs"
  /\ afield.numFields_ >= 1
  /\ acall.i = afield.numFields_
  /\ afield.ParExposedDoFs_ # NULL
  /\ acall.i \in DOMAIN Deref(afield.ParExposedDoFs_)
  /\ aret.ret = NULL

\* the vectors the accessor reads had not been allocated when it was called
AskedBeforeInit == AccessorCalled /\ ArrayAsked(acall.before, acall.name) = NULL

\* C12 as stated: every accessor called before the vectors it reads are
\* allocated returns NULL and ends normally
C12_UninitializedNull == AskedBeforeInit => (aret.ret = NULL /\ ~aret.undef)

\* C12 as amended: called before the vectors it reads are allocated, a const
\* accessor returns NULL and leaves the field alone; a non-const accessor
\* allocates them with initVectors() and then returns the vector of index i
\* when i is below the field count, NULL otherwise; none reads outside an
\* array
C12_UninitializedLazy ==
  AskedBeforeInit =>
    /\ ~aret.undef
    /\ acall.name \in ConstAccessors => (aret.ret = NULL /\ afield = acall.before)
    /\ acall.name \in LazyAccessors =>
         /\ ArrayAsked(afield, acall.name) # NULL
         /\ Size(Deref(ArrayAsked(afield, acall.name))) = adefault
         /\ IF acall.i < afield.numFields_
            THEN aret.ret = Ptr(Deref(ArrayAsked(afield, acall.name))[acall.i])
            ELSE aret.ret = NULL

\* C12 witness: ExposedDoFs(i) on a field without vectors returned a vector
C12_Witness ==
  /\ AskedBeforeInit
  /\ acall.name = "ExposedDoFs"
  /\ acall.before.numFields_ = 0
  /\ aret.ret # NULL

(***************************************************************************)
(* Properties of the distributed partition.                                 *)
(***************************************************************************)
\* the ParEPDoFs objects exist: the constructor has run and has returned
Constructed == pcall # "none" /\ pstat # "crashed"

\* C13: after the construction every rank holds the same two arrays over
\* 0..numProcs, both starting at 0 and non-decreasing; ExposedPart grows by
\* the exposed dofs of rank p, TExposedPart by the columns of rank p less its
\* private dofs, the rows of rank p less its exposed dofs
C13_Partitions ==
  Constructed =>
    LET n == pfes.numProcs
    IN  \A r \in Idx(n) :
          LET E == Deref(pepdofs[r].ExposedPart_)
              T == Deref(pepdofs[r].TExposedPart_)
          IN  /\ DOMAIN E = 0..n /\ DOMAIN T = 0..n
              /\ E = Deref(pepdofs[0].ExposedPart_)
              /\ T = Deref(pepdofs[0].TExposedPart_)
              /\ E[0] = 0 /\ T[0] = 0
              /\ \A p \in Idx(n) :
                   /\ E[p + 1] - E[p] = pepdofs[p].nExposedDofs_
                   /\ T[p + 1] = T[p] + (pfes.TDoFPart[p + 1] - pfes.TDoFPart[p])
                                    - ((pfes.DoFPart[p + 1] - pfes.DoFPart[p])
                                         - pepdofs[p].nExposedDofs_)
                   /\ E[p] <= E[p + 1] /\ T[p] <= T[p + 1]

\* C13 witness: three ranks with private dofs on some rank, constructed
C13_Witness ==
  /\ pcall = "ParEPDoFs" /\ pstat = "ok"
  /\ pfes.numProcs = 3
  /\ \E p \in Idx(3) : pepdofs[p].nPrivateDofs_ > 0
  /\ Deref(pepdofs[2].TExposedPart_)[3] < pfes.TDoFPart[3]
  /\ Deref(pepdofs[2].TExposedPart_)[3] < Deref(pepdofs[2].ExposedPart_)[3]

\* the exposed rows of the operator, by rank and row
ExposedRows == UNION {{<<p, i>> : i \in DOMAIN Deref(pepdofs[p].Pe_)} : p \in DOMAIN pepdofs}

\* the ranks whose range of true dofs holds column c
RanksHolding(c) ==
  {r \in Idx(pfes.numProcs) : pfes.TDoFPart[r] <= c /\ c < pfes.TDoFPart[r + 1]}

\* C14: a nonzero whose column c lies in the true dof range of rank r is
\* rewritten to c less the private dofs of the ranks before r; for the
\* column of an exposed dof the result lies in the true exposed range of
\* rank r, and two such columns keep their order, so none collapse
C14_ColumnsCompacted ==
  Constructed =>
    LET T    == Deref(pepdofs[0].TExposedPart_)
        nPri == [p \in Idx(pfes.numProcs) |->
                   (pfes.DoFPart[p + 1] - pfes.DoFPart[p]) - pepdofs[p].nExposedDofs_]
        c(pi)   == pfes.J[pi[1]][pi[2]]
        col(pi) == Deref(pepdofs[pi[1]].Pe_)[pi[2]].col
    IN  /\ \A pi \in ExposedRows : \A r \in RanksHolding(c(pi)) :
             /\ col(pi) = c(pi) - SumUpTo(nPri, r)
             /\ T[r] <= col(pi) /\ col(pi) < T[r + 1]
        /\ \A pi, qj \in ExposedRows :
             (RanksHolding(c(pi)) # {} /\ RanksHolding(c(qj)) # {}) =>
               /\ c(pi) < c(qj) => col(pi) < col(qj)
               /\ c(pi) = c(qj) => col(pi) = col(qj)

\* C14 witness: on three ranks a dof of the last rank, behind the private
\* dofs of the ranks before it, and a dof two ranks share
C14_Witness ==
  /\ pcall = "ParEPDoFs" /\ pstat = "ok"
  /\ pfes.numProcs = 3
  /\ \E i \in DOMAIN Deref(pepdofs[2].Pe_) :
       /\ 2 \in RanksHolding(pfes.J[2][i])
       /\ Deref(pepdofs[2].Pe_)[i].col < pfes.J[2][i] - 1
  /\ \E pi, qj \in ExposedRows :
       pi[1] # qj[1] /\ pfes.J[pi[1]][pi[2]] = pfes.J[qj[1]][qj[2]]

(***************************************************************************)
(* Properties of the field storage.                                         *)
(***************************************************************************)
\* initFromInterleavedVector has filled the field and has returned
Filled == fstat \in {"init", "initOutOfBounds", "rebuilt"}

\* C15: after initFromInterleavedVector(x), for every element and every
\* exposed local dof j, exposed[expDofs[j]] = x[allDofs[j]] when the id is not
\* sign-tagged and exposed[-1-expDofs[j]] = -x[-1-allDofs[j]] when it is, and
\* for every private local dof j, private[privateOffset(e)+j] = x[interiorDofs(e)[j]]
C15_InitCopies ==
  Filled =>
    LET d  == epdofs[1]
        xE == Deref(epfield.ExposedDoFs_)[0]
        xP == Deref(epfield.PrivateDoFs_)[0]
    IN  \A e \in ElemsOf(d) :
          LET allDofs == FesGetElementDofs(d.fes_, e)
              expDofs == ElementDofsOf(d, e)
              priDofs == GetElementInteriorDofs(d.fes_, e)
              off     == Deref(d.priOffset_)
          IN  /\ \A j \in DOMAIN expDofs :
                   IF expDofs[j] >= 0
                   THEN xE[expDofs[j]] = xIn[allDofs[j]]
                   ELSE xE[-1 - expDofs[j]] = QNeg[xIn[-1 - allDofs[j]]]
              /\ \A j \in DOMAIN priDofs : xP[off[e] + j] = xIn[priDofs[j]]

(***************************************************************************)
(* Properties of the field across the ranks.                               *)
(***************************************************************************)
\* the entry of true exposed dof t in the true-exposed vectors ys of the ranks
TrueEntry(ys, t) ==
  LET q == CHOOSE r \in DOMAIN pepdofs :
             /\ Deref(pepdofs[r].TExposedPart_)[r] <= t
             /\ t < Deref(pepdofs[r].TExposedPart_)[r + 1]
  IN  ys[q][t - Deref(pepdofs[q].TExposedPart_)[q]]

\* C18: updateExposedDoFs leaves the true-exposed vector and the private
\* vector of every rank as they were, and afterwards every local exposed dof
\* of every rank holds the value its true dof had before the call: nothing
\* is summed
C18_BroadcastStep ==
  (pcall' = "updateExposedDoFs") =>
    \A p \in DOMAIN pfield :
      /\ pfield'[p].ParExposedDoFs_ = pfield[p].ParExposedDoFs_
      /\ pfield'[p].PrivateDoFs_ = pfield[p].PrivateDoFs_
      /\ pfield'[p].numFields_ = pfield[p].numFields_
      /\ DOMAIN Deref(pfield'[p].ExposedDoFs_)[0] = Idx(pepdofs[p].nExposedDofs_)
      /\ \A i \in Idx(pepdofs[p].nExposedDofs_) :
           Deref(pfield'[p].ExposedDoFs_)[0][i] =
             TrueEntry([q \in DOMAIN pfield |-> Deref(pfield[q].ParExposedDoFs_)[0]],
                       Deref(pepdofs[p].Pe_)[i].col)

C18_Broadcast == [][C18_BroadcastStep]_vars

\* updateExposedDoFs has run on three ranks whose local values of a shared
\* dof were neither equal nor the true value
C18_Witness ==
  /\ pcall = "updateExposedDoFs"
  /\ nreduce = 0
  /\ pfes.numProcs = 3
  /\ \E p \in DOMAIN pfield : \E i \in DOMAIN Deref(pepdofs[p].Pe_) :
       /\ Copies(Deref(pepdofs[p].Pe_)[i].col) = 3
       /\ Deref(pfield[p].ExposedDoFs_)[0][i] # QZero
  /\ \E p \in DOMAIN pfield : pepdofs[p].nPrivateDofs_ > 0

(***************************************************************************)
(* Properties of the cached table and the offsets of the dof partition.    *)
(***************************************************************************)
\* a GetElementDofs call has handed a row with ids to its caller
RowReturned == ExpDoFs # << >>

\* C19 as stated: once GetElementDofs has been called the element-to-exposed-
\* dof table is cached, and its rows are the ids of the direct derivation
C19_FirstCallCaches ==
  RowReturned =>
    /\ epdofs[1].expDoFsByElem_ # NULL
    /\ \A e \in ElemsOf(epdofs[1]) :
         Deref(epdofs[1].expDoFsByElem_)[e] = DirectElementDofs(epdofs[1].fes_, e)

\* every row of the table, when there is one, is the ordered, sign-tagged id
\* list of the direct derivation
TableIsDirect ==
  epdofs[1].expDoFsByElem_ # NULL =>
    /\ DOMAIN Deref(epdofs[1].expDoFsByElem_) = ElemsOf(epdofs[1])
    /\ \A e \in ElemsOf(epdofs[1]) :
         Deref(epdofs[1].expDoFsByElem_)[e] = DirectElementDofs(epdofs[1].fes_, e)

\* a step that hands a row to the caller (GetElementDofs, with or without
\* offsets) leaves the table pointer as it was, null or not, and the row is
\* the direct derivation's for some element; the table is set, once, by a
\* step that returns nothing (BuildElementToDofTable)
TableStep ==
  /\ (ExpDoFs' # ExpDoFs) =>
        /\ epdofs'[1].expDoFsByElem_ = epdofs[1].expDoFsByElem_
        /\ \E e \in ElemsOf(epdofs[1]) : ExpDoFs' = DirectElementDofs(epdofs[1].fes_, e)
  /\ (epdofs'[1].expDoFsByElem_ # epdofs[1].expDoFsByElem_) =>
        /\ epdofs[1].expDoFsByElem_ = NULL
        /\ <<ExpDoFs, PriOffset, numPri>>' = <<ExpDoFs, PriOffset, numPri>>
        /\ epdofs'[1].priOffset_ = epdofs[1].priOffset_

\* C19 as amended: GetElementDofs never builds the table; it derives the ids
\* until BuildElementToDofTable has cached the table and looks them up
\* afterwards, and the lookup returns the direct derivation's list
C19_TableOnDemand == []TableIsDirect /\ [][TableStep]_vars

\* the row of element 1 of the two tetrahedra, with a sign-tagged id, handed
\* out while the table is cached
C19_Witness ==
  /\ epdofs[1].fes_.mesh = MeshTet2
  /\ epdofs[1].expDoFsByElem_ # NULL
  /\ ExpDoFs = Deref(epdofs[1].expDoFsByElem_)[1]
  /\ ExpDoFs # Deref(epdofs[1].expDoFsByElem_)[0]
  /\ \E j \in DOMAIN ExpDoFs : ExpDoFs[j] < 0

\* nExposed + nPrivate is the number of dofs of the space, and the offsets,
\* once there, are the prefix sums of the interior dof counts up to nPrivate
OffsetsArePrefixSums ==
  LET d == epdofs[1]
  IN  /\ d.nExposedDofs_ + d.nPrivateDofs_ = GetNDofs(d.fes_)
      /\ d.priOffset_ # NULL =>
            LET off == Deref(d.priOffset_)
            IN  /\ DOMAIN off = 0..GetNElements(d)
                /\ off[0] = 0
                /\ \A e \in ElemsOf(d) :
                     off[e + 1] = off[e] + Size(GetElementInteriorDofs(d.fes_, e))
                /\ off[GetNElements(d)] = d.nPrivateDofs_

\* no call changes the counts or offsets that are there; the offsets are
\* built by a call that hands offsets to its caller, and every such call
\* leaves them built
OffsetsStep ==
  LET d == epdofs[1]
  IN  /\ epdofs'[1].nExposedDofs_ = d.nExposedDofs_
      /\ epdofs'[1].nPrivateDofs_ = d.nPrivateDofs_
      /\ epdofs'[1].fes_ = d.fes_
      /\ d.priOffset_ # NULL => epdofs'[1].priOffset_ = d.priOffset_
      /\ epdofs'[1].priOffset_ # d.priOffset_ =>
            \E e \in ElemsOf(d) :
              /\ PriOffset' = Deref(epdofs'[1].priOffset_)[e]
              /\ numPri' = Size(GetElementInteriorDofs(d.fes_, e))
              /\ ExpDoFs' = DirectElementDofs(d.fes_, e)
      /\ (PriOffset' # PriOffset \/ numPri' # numPri) => epdofs'[1].priOffset_ # NULL

\* C20: the offsets are built once, by the first GetElementDofs call that
\* asks for offsets, and never change; priOffset_[0] = 0, priOffset_[e+1] =
\* priOffset_[e] + the interior dof count of e, priOffset_[NE] = nPrivate;
\* nExposed + nPrivate = the dofs of the space in every state, and no call
\* changes either count
C20_OffsetsOnce == []OffsetsArePrefixSums /\ [][OffsetsStep]_vars

\* two tetrahedra with private dofs: the offsets built, the slot of element 1
\* handed out, the table cached
C20_Witness ==
  /\ epdofs[1].fes_.mesh = MeshTet2
  /\ epdofs[1].priOffset_ # NULL
  /\ epdofs[1].expDoFsByElem_ # NULL
  /\ epdofs[1].nExposedDofs_ > 0
  /\ PriOffset > 0
  /\ numPri > 0
  /\ PriOffset + numPri = epdofs[1].nPrivateDofs_

(***************************************************************************)
(* ParEPMatrix: the operator across the ranks.  Rank p holds the EPDoFs     *)
(* part of its ParEPDoFs object o as epdofs[2 * p + o], the rest as         *)
(* pepdofs[p] (the objects of a rank are built on the one space of the     *)
(* rank), and its ParEPMatrix as pmatrix[p], the EPMatrix part under the    *)
(* name EPMatrix.                                                           *)
(***************************************************************************)
\* ParEPMatrix::ParEPMatrix(pepdofsL, pepdofsR, bfi); bfi_ is kept as the
\* element matrices the integrator returns on the rank, preducedOp_ is not
\* initialised
ParEPMatrixNew(L, R, bfi) ==
  [EPMatrix     |-> EPMatrixNew(L, R),
   bfi_         |-> bfi,
   pepdofsL_    |-> L,
   pepdofsR_    |-> R,
   preducedOp_  |-> "uninitialized",
   preducedRHS_ |-> NULL,
   vec_         |-> NULL,
   vecp_        |-> NULL]

\* the EPDoFs part, among the objects ds, of partition o on rank p
RankDofs(ds, o, p) == ds[2 * p + o]

\* a ParEPField of one field copy
MakeParField(E, P, T) ==
  [numFields_ |-> 1, ExposedDoFs_ |-> Ptr([i \in Idx(1) |-> E]),
   PrivateDoFs_ |-> Ptr([i \in Idx(1) |-> P]),
   ParExposedDoFs_ |-> Ptr([i \in Idx(1) |-> T])]

\* x.ParExposedDoFs()
ParExposedOf(f) == Deref(f.ParExposedDoFs_)[0]

\* ParEPMatrix::Assemble() on every rank
ParAssemble(fill) ==
  LET n == pfes.numProcs
  IN  /\ pcall = "none"
      /\ \E ds \in Val([o \in DOMAIN epdofs |-> WithPriOffset(epdofs[o])]) :
           \E rs \in Val([p \in Idx(n) |->
                            AssembleOf(pmatrix[p].EPMatrix, RankDofs(ds, pmatrix[p].pepdofsL_, p),
                                       RankDofs(ds, pmatrix[p].pepdofsR_, p), pmatrix[p].bfi_, fill)]) :
             /\ epdofs' = ds
             /\ pmatrix' =
                  [p \in Idx(n) |->
                     IF pmatrix[p].pepdofsL_ = pmatrix[p].pepdofsR_
                     THEN LET part == Deref(pepdofs[p].TExposedPart_)
                          IN  [pmatrix[p] EXCEPT
                                 !.EPMatrix     = rs[p].m,
                                 !.preducedOp_  = "ParReducedOp",
                                 !.preducedRHS_ = Ptr(NewVector(part[p + 1] - part[p], fill)),
                                 !.vec_         = Ptr(NewVector(pepdofs[p].nExposedDofs_, fill)),
                                 !.vecp_        = Ptr(NewVector(pepdofs[p].nPrivateDofs_, fill))]
                     ELSE [pmatrix[p] EXCEPT !.EPMatrix = rs[p].m]]
             /\ pstat' \in (IF \E p \in Idx(n) : rs[p].undef
                            THEN {"undefined", "crashed"} ELSE {"ok"})
      /\ pcall' = "Assemble"
      /\ UNCHANGED <<pfes, pepdofs, pread, pfield, pOnce, nreduce, px, pLocal>>

\* ParEPMatrix::ReducedOperator() const on rank p: prints its message when
\* preducedOp_ is NULL and returns preducedOp_; a member the constructor never
\* wrote holds an indeterminate value, which may or may not compare equal to
\* NULL.  The call is recorded with the state of the operator it met
ParReducedOperator(p) ==
  LET pm  == pmatrix[p]
      ops == IF pm.preducedOp_ = "uninitialized" THEN {"NULL", "indeterminate"}
             ELSE {pm.preducedOp_}
  IN  /\ pstat # "crashed"
      /\ \E op \in ops :
           pret' = [rank |-> p, op |-> op, oops |-> (op = "NULL"),
                    assembled |-> (pcall # "none"),
                    same |-> (pm.pepdofsL_ = pm.pepdofsR_)]
      /\ UNCHANGED <<epdofs, parVars, pmVars>>

\* the operator is assembled and the processes run
ParAssembled == pcall \in {"Assemble", "Mult", "ReducedRHS"} /\ pstat # "crashed"

\* ParEPMatrix::Mult with y left as EPMatrix::Mult wrote it
ParMultNoUpdate(fill) ==
  LET n == pfes.numProcs
  IN  /\ ParAssembled
      /\ \E rs \in Val([p \in Idx(n) |->
                          MultOf(pmatrix[p].EPMatrix, RankDofs(epdofs, pmatrix[p].pepdofsL_, p),
                                 RankDofs(epdofs, pmatrix[p].pepdofsR_, p), px[p], fill)]) :
           \E ys \in Val([p \in Idx(n) |->
                            MakeParField(ExposedOf(rs[p].y), PrivateOf(rs[p].y),
                                         NewVector(pepdofs[p].nParExposedDofs_, fill))]) :
             /\ pLocal' = ys
             /\ pfield' = ys
             /\ pstat' \in (IF \E p \in Idx(n) : rs[p].undef
                            THEN {"undefined", "crashed"} ELSE {pstat})
      /\ pcall' = "Mult"
      /\ UNCHANGED <<pfes, pepdofs, pread, pOnce, nreduce, epdofs, pmatrix, px>>

\* ParEPMatrix::Mult(x, y) on every rank, y a field with new vectors:
\* EPMatrix::Mult(x, y), then y.updateParExposedDoFs()
ParMult(fill) ==
  LET n     == pfes.numProcs
      pe    == [p \in Idx(n) |-> Deref(pepdofs[p].Pe_)]
      tpart == Deref(pepdofs[0].TExposedPart_)
  IN  /\ ParAssembled
      /\ \E rs \in Val([p \in Idx(n) |->
                          MultOf(pmatrix[p].EPMatrix, RankDofs(epdofs, pmatrix[p].pepdofsL_, p),
                                 RankDofs(epdofs, pmatrix[p].pepdofsR_, p), px[p], fill)]) :
           \E ys \in Val([p \in Idx(n) |->
                            MakeParField(ExposedOf(rs[p].y), PrivateOf(rs[p].y),
                                         NewVector(pepdofs[p].nParExposedDofs_, fill))]) :
             \E T \in Val(PeMultTranspose(pe, [p \in Idx(n) |-> ExposedOf(ys[p])], tpart, n)) :
               \E E \in Val(PeMult(pe, T, tpart, n)) :
                 /\ pLocal' = ys
                 /\ pfield' = [p \in Idx(n) |-> MakeParField(E[p], PrivateOf(ys[p]), T[p])]
                 /\ pstat' \in (IF \E p \in Idx(n) : rs[p].undef
                                THEN {"undefined", "crashed"} ELSE {pstat})
      /\ pcall' = "Mult"
      /\ UNCHANGED <<pfes, pepdofs, pread, pOnce, nreduce, epdofs, pmatrix, px>>

\* (*preducedRHS_) += *x.ParExposedDoFs() without the *= -1.0 before it
PlusX(r, xT) == [k \in DOMAIN r |-> QAdd[r[k], xT[k]]]

\* (*preducedRHS_) *= -1.0; (*preducedRHS_) += *x.ParExposedDoFs()
NegatedPlusX(r, xT) == [k \in DOMAIN r |-> QAdd[QMul[r[k], QI(-1)], xT[k]]]

\* ParEPMatrix::ReducedRHS(x) on every rank; with left # right GetMppInv()
\* is null and MppInv[i]->Size() is undefined
ParReducedRHS ==
  LET n     == pfes.numProcs
      pe    == [p \in Idx(n) |-> Deref(pepdofs[p].Pe_)]
      tpart == Deref(pepdofs[0].TExposedPart_)
  IN  /\ ParAssembled
      /\ pcall' = "ReducedRHS"
      /\ IF \E p \in Idx(n) : pmatrix[p].EPMatrix.MppInv_ = NULL \/ pmatrix[p].vecp_ = NULL
         THEN /\ pstat' \in {"undefined", "crashed"}
              /\ UNCHANGED pmatrix
         ELSE \E vecp \in Val([p \in Idx(n) |->
                    InvBlocks(Deref(pmatrix[p].EPMatrix.MppInv_),
                              Deref(RankDofs(epdofs, pmatrix[p].pepdofsL_, p).priOffset_),
                              Deref(RankDofs(epdofs, pmatrix[p].pepdofsR_, p).priOffset_),
                              PrivateOf(px[p]),
                              GetNElements(RankDofs(epdofs, pmatrix[p].pepdofsR_, p)),
                              Deref(pmatrix[p].vecp_))]) :
                \E vec \in Val([p \in Idx(n) |->
                      MatVec(Deref(pmatrix[p].EPMatrix.Mep_), pepdofs[p].nPrivateDofs_,
                             vecp[p])]) :
                  \E T \in Val(PeMultTranspose(pe, vec, tpart, n)) :
                    /\ pmatrix' =
                         [p \in Idx(n) |->
                            [pmatrix[p] EXCEPT
                               !.vecp_ = Ptr(vecp[p]),
                               !.vec_ = Ptr(vec[p]),
                               !.preducedRHS_ = Ptr(NegatedPlusX(T[p], ParExposedOf(px[p])))]]
                    /\ pstat' = pstat
      /\ UNCHANGED <<pfes, pepdofs, pread, pfield, pOnce, nreduce, epdofs, px, pLocal>>

(***************************************************************************)
(* The distributed operator under its calls: two or three ranks in a row,  *)
(* each with two segments, neighbours sharing the vertex between them.     *)
(***************************************************************************)
MatSharePatterns ==
  {Arr(<<{0}, {0}, {0, 1}, {1}, {1}>>),
   Arr(<<{0}, {0}, {0, 1}, {1}, {1, 2}, {2}, {2}>>)}

\* the collections of the ranks: one or two interior dofs a segment
ParFecs == {Fec(1, 1, 0, 1, 1, FALSE), Fec(1, 2, 1, 4, 0, FALSE)}

\* the field x of the calls on rank p
ParFieldInput(d, pd, p, a, b) ==
  MakeParField([i \in Idx(d.nExposedDofs_) |-> QI(a * (i + 1) + b + p)],
               [k \in Idx(d.nPrivateDofs_) |-> QI(a * (k + 2) - b + 2 * p)],
               [k \in Idx(pd.nParExposedDofs_) |-> QI(b * (k + 1) - a + 3 * p)])

InitParMatrix ==
  /\ \E share \in MatSharePatterns, fec \in ParFecs, s \in 0..MaxSeed, t \in 0..MaxSkew,
        a \in {-MaxSlope, MaxSlope}, b \in {0, 1}, R \in {1, 2} :
       LET n   == RanksOf(share)
           fes == [mesh |-> MeshSeg2, fec |-> fec]
       IN  \E pf \in Val(ParSpace(share, [p \in Idx(n) |-> CountPrivateDofs(fes)])) :
             \E o \in Val(ParEPDoFsOf(pf, 0)) :
               /\ pfes = pf
               /\ pepdofs = o.ranks
               /\ pread = o.read
               /\ epdofs = [r \in {2 * p + obj : p \in Idx(n), obj \in {1, R}} |->
                              EPDoFsNew(fes)]
               /\ \A p \in Idx(n) : o.ranks[p].nExposedDofs_ = CountExposedDofs(fes)
               /\ pmatrix = [p \in Idx(n) |->
                    ParEPMatrixNew(1, R,
                      [i \in Idx(GetNE(fes.mesh)) |->
                         ElMatOf(s + i + p, t, Size(FesGetElementDofs(fes, i)))])]
               /\ px = [p \in Idx(n) |-> ParFieldInput(EPDoFsNew(fes), o.ranks[p], p, a, b)]
  /\ pLocal = << >>
  /\ pfield = << >>
  /\ pOnce = << >>
  /\ nreduce = 0
  /\ pcall = "none"
  /\ pstat = "ok"
  /\ CallerIdle
  /\ FieldIdle
  /\ MatIdle
  /\ AccIdle
  /\ RetIdle /\ NormIdle /\ AsmIdle /\ GeomIdle /\ JouleIdle

NextParMatrix ==
  \/ \E fill \in Fills :
       ParAssemble(fill) /\ UNCHANGED <<ExpDoFs, PriOffset, numPri, fieldVars, matVars, accVars, pret, normVars, asmVars, geomVars, jouleVars>>
  \/ \E fill \in Fills :
       ParMult(fill) /\ UNCHANGED <<ExpDoFs, PriOffset, numPri, fieldVars, matVars, accVars, pret, normVars, asmVars, geomVars, jouleVars>>
  \/ ParReducedRHS /\ UNCHANGED <<ExpDoFs, PriOffset, numPri, fieldVars, matVars, accVars, pret, normVars, asmVars, geomVars, jouleVars>>
  \/ \E p \in {0} :
       ParReducedOperator(p) /\ UNCHANGED <<ExpDoFs, PriOffset, numPri, fieldVars, matVars, accVars, normVars, asmVars, geomVars, jouleVars>>

SpecParMatrix == InitParMatrix /\ [][NextParMatrix]_vars

(***************************************************************************)
(* Properties of the distributed operator.                                 *)
(***************************************************************************)
\* the rows, over all ranks, of true exposed dof t
RowsOf(t) == {r \in ExposedRows : Deref(pepdofs[r[1]].Pe_)[r[2]].col = t}

\* the sum of the entries of the vectors xs, by rank, at the rows S
RECURSIVE LocalSum(_, _)
LocalSum(xs, S) ==
  IF S = {} THEN QZero
  ELSE LET r == CHOOSE q \in S : TRUE
       IN  QAdd[xs[r[1]][r[2]], LocalSum(xs, S \ {r})]

\* the first true exposed dof of rank p
TrueOffset(p) == Deref(pepdofs[p].TExposedPart_)[p]

\* C16: after ParEPMatrix::Mult(x, y) every local copy of an exposed dof, on
\* every rank that holds it, is the sum of what EPMatrix::Mult left at that
\* dof on all ranks, the true-exposed vector holds the same sum, and
\* y.private is what EPMatrix::Mult left
C16_MultReduced ==
  (pcall = "Mult" /\ pstat = "ok") =>
    LET local == [q \in DOMAIN pLocal |-> ExposedOf(pLocal[q])]
    IN  \A p \in DOMAIN pfield :
          /\ DOMAIN ExposedOf(pfield[p]) = Idx(pepdofs[p].nExposedDofs_)
          /\ \A i \in Idx(pepdofs[p].nExposedDofs_) :
               ExposedOf(pfield[p])[i] =
                 LocalSum(local, RowsOf(Deref(pepdofs[p].Pe_)[i].col))
          /\ DOMAIN ParExposedOf(pfield[p]) = Idx(pepdofs[p].nParExposedDofs_)
          /\ \A k \in Idx(pepdofs[p].nParExposedDofs_) :
               ParExposedOf(pfield[p])[k] = LocalSum(local, RowsOf(TrueOffset(p) + k))
          /\ PrivateOf(pfield[p]) = PrivateOf(pLocal[p])

\* three ranks: a dof held by two of them whose local results differ, and a
\* rank whose exposed values the reduce changed
C16_Witness ==
  /\ pcall = "Mult" /\ pstat = "ok"
  /\ pfes.numProcs = 3
  /\ \E r1, r2 \in ExposedRows :
       /\ r1[1] # r2[1]
       /\ Deref(pepdofs[r1[1]].Pe_)[r1[2]].col = Deref(pepdofs[r2[1]].Pe_)[r2[2]].col
       /\ ExposedOf(pLocal[r1[1]])[r1[2]] # ExposedOf(pLocal[r2[1]])[r2[2]]
       /\ ExposedOf(pLocal[r1[1]])[r1[2]] # QZero
       /\ ExposedOf(pfield[r1[1]])[r1[2]] = ExposedOf(pfield[r2[1]])[r2[2]]
  /\ \E p \in DOMAIN pfield : PrivateOf(pfield[p]) # NewVector(pepdofs[p].nPrivateDofs_, QZero)

\* both sides of the distributed operator are one partition
ParSameSides ==
  pmatrix # << >> /\ \A p \in DOMAIN pmatrix : pmatrix[p].pepdofsL_ = pmatrix[p].pepdofsR_

\* the vector ReducedRHS has returned, with left == right
ReducedRHSReturned == ParSameSides /\ pcall = "ReducedRHS" /\ pstat = "ok"

\* v of rank p: element by element, mpp(e) times its entries of v is
\* x.private on the range of e
SolvedByBlocks(p, v) ==
  LET d   == RankDofs(epdofs, pmatrix[p].pepdofsR_, p)
      off == Deref(d.priOffset_)
      Mpp == Deref(pmatrix[p].EPMatrix.Mpp_)
  IN  /\ DOMAIN v = Idx(d.nPrivateDofs_)
      /\ \A e \in ElemsOf(d) : \A r \in Idx(off[e + 1] - off[e]) :
           QSum([c \in Idx(off[e + 1] - off[e]) |-> QMul[Mpp[e][r][c], v[off[e] + c]]])
             = PrivateOf(px[p])[off[e] + r]

\* r = x.trueExposed - Pe^T (Mep v) on every rank
ReducedRHSValue ==
  ReducedRHSReturned =>
    \A vs \in Val([p \in DOMAIN pmatrix |-> Deref(pmatrix[p].vecp_)]) :
      \A ws \in Val([p \in DOMAIN pmatrix |->
                       MatVec(Deref(pmatrix[p].EPMatrix.Mep_), pepdofs[p].nPrivateDofs_,
                              vs[p])]) :
        \A p \in DOMAIN pmatrix :
          /\ SolvedByBlocks(p, vs[p])
          /\ DOMAIN Deref(pmatrix[p].preducedRHS_) = Idx(pepdofs[p].nParExposedDofs_)
          /\ \A k \in Idx(pepdofs[p].nParExposedDofs_) :
               Deref(pmatrix[p].preducedRHS_)[k] =
                 QSub[ParExposedOf(px[p])[k], LocalSum(ws, RowsOf(TrueOffset(p) + k))]

\* C17: with left == right the vector ParEPMatrix::ReducedRHS(x) returns is
\* x.trueExposed - Pe^T (Mep v), v the private part of x through the inverse
\* of mpp(e) element by element; x is as it was
C17_ParReducedRHS == []ReducedRHSValue /\ [][pcall' = "ReducedRHS" => px' = px]_vars

\* three ranks, two interior dofs a segment: the returned vector differs
\* from x.trueExposed at a dof two ranks hold
C17_Witness ==
  /\ ReducedRHSReturned
  /\ pfes.numProcs = 3
  /\ \A p \in DOMAIN pepdofs : pepdofs[p].nPrivateDofs_ = 4
  /\ \E p \in DOMAIN pmatrix : \E k \in Idx(pepdofs[p].nParExposedDofs_) :
       /\ Cardinality(RowsOf(TrueOffset(p) + k)) = 2
       /\ Deref(pmatrix[p].preducedRHS_)[k] # ParExposedOf(px[p])[k]
       /\ ParExposedOf(px[p])[k] # QZero

(***************************************************************************)
(* Properties of the accumulators of Assemble.                             *)
(***************************************************************************)
\* the private-exposed block of element e as the claim reads it: row i is
\* private dof i of the left partition, column j exposed dof j of the right
MpeOf(e, i, j) == elmats[e][Size(ElementDofsOf(epdofs[epmatrix.epdofsL_], e)) + i][j]

\* left # right, assembled, and every element matrix holds the rows of the
\* left partition's dofs
AssembledTwoSided ==
  /\ epmatrix # << >> /\ ~SameSides /\ mcall = "Assemble" /\ mstat # "crashed"
  /\ \A e \in ElemsOf(epdofs[epmatrix.epdofsR_]) :
       LET dL == epdofs[epmatrix.epdofsL_]
       IN  Size(ElementDofsOf(dL, e))
             + Deref(dL.priOffset_)[e + 1] - Deref(dL.priOffset_)[e] <= Size(elmats[e])

\* C22: with left # right, Mpe holds mpe(e)(i,j) at row (left private offset
\* of e) + i and column (right exposed id j of e), summed over the elements
C22_MpeRowsLeftColsRight ==
  AssembledTwoSided =>
    LET dL == epdofs[epmatrix.epdofsL_]
        dR == epdofs[epmatrix.epdofsR_]
        offL == Deref(dL.priOffset_)
    IN  /\ epmatrix.Mpe_ # NULL
        /\ \A r \in Idx(dL.nPrivateDofs_) : \A c \in Idx(dR.nExposedDofs_) :
             Deref(epmatrix.Mpe_)[r][c] =
               LocalSum([e \in ElemsOf(dR) |->
                           [k \in Idx((offL[e + 1] - offL[e]) * Size(ElementDofsOf(dR, e))) |->
                              MpeOf(e, k \div Size(ElementDofsOf(dR, e)),
                                       k % Size(ElementDofsOf(dR, e)))]],
                        {ek \in UNION {{<<e, k>> :
                                   k \in Idx((offL[e + 1] - offL[e]) * Size(ElementDofsOf(dR, e)))} :
                                 e \in ElemsOf(dR)} :
                           /\ offL[ek[1]] + (ek[2] \div Size(ElementDofsOf(dR, ek[1]))) = r
                           /\ ElementDofsOf(dR, ek[1])[ek[2] % Size(ElementDofsOf(dR, ek[1]))] = c})

\* left == right, assembled, and the row of some element holds a sign-tagged id
SignedRowAssembled ==
  /\ SameSides /\ mcall = "Assemble"
  /\ \E e \in ElemsOf(epdofs[1]) : \E j \in DOMAIN ElementDofsOf(epdofs[1], e) :
       ElementDofsOf(epdofs[1], e)[j] < 0

\* elmat(i, j) of element e with the signs of the ids i and j of its row
SignedEntry(e, i, j) ==
  LET row == ElementDofsOf(epdofs[1], e)
      a   == elmats[e][i][j]
      neg == (i \in DOMAIN row /\ row[i] < 0) # (j \in DOMAIN row /\ row[j] < 0)
  IN  IF neg THEN QNeg[a] ELSE a

\* C23: a sign-tagged id of an element's row lands at its decoded index, with
\* the sign, in Mee and in Mep, and no accumulator is addressed with a
\* negative index (the call ends without undefined behaviour)
C23_SignApplied ==
  SignedRowAssembled =>
    LET d   == epdofs[1]
        off == Deref(d.priOffset_)
        nE(e) == Size(ElementDofsOf(d, e))
        all == [e \in ElemsOf(d) |->
                  [k \in Idx(Size(elmats[e]) * Size(elmats[e])) |->
                     SignedEntry(e, k \div Size(elmats[e]), k % Size(elmats[e]))]]
        at(e, k) == <<k \div Size(elmats[e]), k % Size(elmats[e])>>
        cells == UNION {{<<e, k>> : k \in Idx(Size(elmats[e]) * Size(elmats[e]))} :
                          e \in ElemsOf(d)}
    IN  /\ mstat = "ok"
        /\ \A r, c \in Idx(d.nExposedDofs_) :
             Deref(epmatrix.Mee_)[r][c] =
               LocalSum(all, {ek \in cells :
                  /\ at(ek[1], ek[2])[1] < nE(ek[1]) /\ at(ek[1], ek[2])[2] < nE(ek[1])
                  /\ Decode(ElementDofsOf(d, ek[1])[at(ek[1], ek[2])[1]]) = r
                  /\ Decode(ElementDofsOf(d, ek[1])[at(ek[1], ek[2])[2]]) = c})
        /\ \A r \in Idx(d.nExposedDofs_) : \A c \in Idx(d.nPrivateDofs_) :
             Deref(epmatrix.Mep_)[r][c] =
               LocalSum(all, {ek \in cells :
                  /\ at(ek[1], ek[2])[1] < nE(ek[1]) /\ at(ek[1], ek[2])[2] >= nE(ek[1])
                  /\ Decode(ElementDofsOf(d, ek[1])[at(ek[1], ek[2])[1]]) = r
                  /\ off[ek[1]] + at(ek[1], ek[2])[2] - nE(ek[1]) = c})

(***************************************************************************)
(* Properties of the vectors of a field.                                   *)
(***************************************************************************)
\* the array a of pointers holds n vectors of length len (none when n = 0)
HoldsVectors(a, n, len) ==
  IF a = NULL THEN n = 0
  ELSE /\ DOMAIN Deref(a) = Idx(n)
       /\ \A i \in Idx(n) : DOMAIN Deref(a)[i] = Idx(len)

\* C24: a ParEPField whose field count is N holds N exposed vectors of length
\* nExposed, N private vectors of length nPrivate and N true-exposed vectors
C24_CountIsAllocated ==
  LET f == afield
  IN  /\ HoldsVectors(f.ExposedDoFs_, f.numFields_, f.epdofs_.nExposedDofs_)
      /\ HoldsVectors(f.PrivateDoFs_, f.numFields_, f.epdofs_.nPrivateDofs_)
      /\ HoldsVectors(f.ParExposedDoFs_, f.numFields_, f.epdofs_.nParExposedDofs_)


\* C25: initFromInterleavedVector reads x only at indices in [0, totalDofs) and
\* writes the exposed vector only in [0, nExposed) and the private vector only
\* in [0, nPrivate), sign-tagged ids included
C25_InitInRange == fstat \notin {"initOutOfBounds", "crashed"}


(***************************************************************************)
(* Properties of the end of an operator.                                   *)
(***************************************************************************)
\* C26: destroying an EPMatrix is safe in every lifecycle state (never
\* assembled, assembled with left == right, assembled with left # right): the
\* destructor never reads through a per-element array that is still null
C26_DestructorSafe ==
  [][(mcall' = "~EPMatrix" /\ mstat = "ok") => mstat' = "ok"]_vars


(***************************************************************************)
(* Properties of the reduced operator of ParEPMatrix.                      *)
(***************************************************************************)
\* C27: ReducedOperator returns a non-null operator exactly when Assemble has
\* run with left == right; before Assemble, or after Assemble with left #
\* right, the pointer is a defined null and the call returns null with its
\* message
C27_ReducedOperatorNull ==
  pret # << >> =>
    IF pret.assembled /\ pret.same
    THEN pret.op = "ParReducedOp" /\ ~pret.oops
    ELSE pret.op = "NULL" /\ pret.oops


(***************************************************************************)
(* Properties of the norms of a field.                                     *)
(***************************************************************************)
\* Norml2 or Normlinf was the last call, made on every rank
NormCalled == pcall \in {"Norml2", "Normlinf"}

SameFieldCount ==
  \A p, q \in DOMAIN pfield : pfield[p].numFields_ = pfield[q].numFields_

\* the entries the norm is to count: every private dof of every rank, and
\* every true exposed dof once, for every field copy
CountedOnce(i) ==
  LET n == pfes.numProcs
      T == Deref(pepdofs[0].TExposedPart_)[n]
      ys == [p \in Idx(n) |-> Deref(pfield[p].ParExposedDoFs_)[i]]
      pr == [p \in Idx(n) |-> Deref(pfield[p].PrivateDoFs_)[i]]
  IN  [sq  |-> QAdd[QSum([p \in Idx(n) |-> QSum([k \in DOMAIN pr[p] |-> QMul[pr[p][k], pr[p][k]]])]),
                    QSum([t \in Idx(T) |-> QMul[TrueEntry(ys, t), TrueEntry(ys, t)]])],
       abs |-> UNION {{QAbs[pr[p][k]] : k \in DOMAIN pr[p]} : p \in Idx(n)}
               \cup {QAbs[TrueEntry(ys, t)] : t \in Idx(T)}]

\* a is the largest number of the set S, or 0 when S is empty
IsLargest(a, S) ==
  IF S = {} THEN a = QZero
  ELSE a \in S /\ \A b \in S : b[1] * a[2] <= a[1] * b[2]

\* C28: when all ranks hold the same field count, every rank issues the same
\* sequence of collectives in Norml2 and in Normlinf, all ranks return the
\* same value, and the value counts every private dof and every exposed dof
\* once over all ranks, the exposed dofs through the true-exposed vector
C28_NormsAgree ==
  (NormCalled /\ SameFieldCount) =>
    LET N == pfield[0].numFields_
    IN  /\ pstat = "ok"
        /\ \A p, q \in DOMAIN pfield : pcoll[p] = pcoll[q]
        /\ DOMAIN pnorm = DOMAIN pfield
        /\ \A p, q \in DOMAIN pfield : pnorm[p] = pnorm[q]
        /\ IF pcall = "Norml2"
           THEN pnorm[0] = Sqrt(QSum([i \in Idx(N) |-> CountedOnce(i).sq]))
           ELSE IsLargest(pnorm[0], UNION {CountedOnce(i).abs : i \in Idx(N)})

\* the same for the fields whose three arrays were allocated together
NormsAgreeAllocated ==
  (NormCalled /\ SameFieldCount /\ \A p \in DOMAIN pfield : pfield[p].ParExposedDoFs_ # NULL) =>
    C28_NormsAgree


(***************************************************************************)
(* Properties of the order of Assemble.                                    *)
(***************************************************************************)
\* every element has added to every accumulator Finalize was called on
FinalizedComplete ==
  \A a \in asm.finalized : asm.added[a] = GetNElements(epdofs[epmatrix.epdofsR_])

\* a step adds nothing to an accumulator Finalize was called on
NoAddAfterFinalize == \A a \in asm.finalized : asm'.added[a] = asm.added[a]

\* a call that reads the accumulators finds all of them finalized
ReadsFinalized ==
  (mcall \in {"Mult", "ReducedRHS", "SolvePrivateDoFs"}) =>
    Allocated(epmatrix) \subseteq asm.finalized

\* C21: in Assemble every accumulator that exists (Mee, Mep, Mrr, and Mpe when
\* left # right) is finalized only after every element has added to it, no
\* entry is added to it afterwards, and Mult, ReducedRHS and SolvePrivateDoFs
\* read the accumulators only when they are finalized
C21_FinalizeAfterLoop ==
  [](FinalizedComplete /\ ReadsFinalized) /\ [][NoAddAfterFinalize]_vars

\* two elements have added to the four accumulators of a left # right
\* operator, Finalize has been called on them, and Mult has read them
C21_Witness ==
  /\ asm.pc = "done"
  /\ asm.finalized = AccNames
  /\ \A a \in AccNames : asm.added[a] = 2
  /\ mcall = "Mult" /\ mstat # "crashed"


(***************************************************************************)
(* kernels::geometry::Geometry: the nodes of the mesh and the static geom. *)
(* nodes holds the nodes grid function with what Get reads of its space:   *)
(* vdim, ndofs, the ordering, the dofs per element numDofs and the         *)
(* element-to-dof table elementMap; geom holds meshNodes and eMap (the     *)
(* Jacobian kernels Geom2D and Geom3D are declared only); gcall lists the   *)
(* calls made, each with the node data it met and whether it returned.     *)
(***************************************************************************)
MaxNDofs == 5

MaxVDim == 3

MaxCalls == 3

\* Geometry::ReorderByVDim(nodes): temp[k++] = data[d+v*ndofs] for d, then v
ReorderByVDim(n) ==
  [n EXCEPT !.data = [k \in Idx(n.ndofs * n.vdim) |->
                        n.data[(k \div n.vdim) + (k % n.vdim) * n.ndofs]]]

\* ReorderByNodes as a plain copy of the data
ReorderByNodesCopy(n) == n

\* Geometry::ReorderByNodes(nodes): temp[j+i*ndofs] = data[k++] for j, then i
ReorderByNodes(n) ==
  [n EXCEPT !.data = [t \in Idx(n.ndofs * n.vdim) |->
                        n.data[(t % n.ndofs) * n.vdim + (t \div n.ndofs)]]]

\* GeomFill(dims, elements, numDofs, elementMap, eMap, nodes, meshNodes)
GeomFill(dims, elements, numDofs, elementMap, data) ==
  [eMap      |-> [lid \in Idx(numDofs * elements) |-> elementMap[lid]],
   meshNodes |-> [m \in Idx(dims * numDofs * elements) |->
                    data[(m % dims) + dims * elementMap[m \div dims]]]]

\* Geom(DIM, NUM_DOFS, NUM_QUAD, ..) finds a kernel for DIM in (2,3), 2 or 3
\* dofs and 2, 3 or 4 quadrature points in a direction; assert(call[id])
\* ends the process otherwise
KernelExists(dims, numDofs, numQuad) ==
  /\ dims \in {2, 3}
  /\ \E dofs1D \in {2, 3} : dofs1D ^ dims = numDofs
  /\ \E quad1D \in {2, 3, 4} : quad1D ^ dims = numQuad

\* the process runs: no call has ended it
GeomRuns == \A k \in 1..Len(gcall) : gcall[k].returned

\* Geometry::Get(fes, ir) for a rule ir of numQuad points
GeometryGet(numQuad) ==
  LET byNODES  == nodes.ordering = "byNODES"
      elements == Size(nodes.elementMap) \div nodes.numDofs
      byVDim   == IF byNODES THEN ReorderByVDim(nodes) ELSE nodes
      filled   == GeomFill(nodes.vdim, elements, nodes.numDofs, nodes.elementMap,
                           byVDim.data)
  IN  /\ Len(gcall) < MaxCalls /\ GeomRuns
      /\ geom' = Ptr(filled)
      /\ nodes' = (IF byNODES THEN ReorderByNodes(byVDim) ELSE byVDim)
      /\ gcall' = Append(gcall, [name |-> "Get", before |-> nodes.data,
                                 returned |-> KernelExists(nodes.vdim, nodes.numDofs,
                                                           numQuad)])

\* ReorderByVDim and ReorderByNodes called on the nodes of the mesh
CallReorderByVDim ==
  /\ Len(gcall) < MaxCalls /\ GeomRuns
  /\ nodes' = ReorderByVDim(nodes)
  /\ gcall' = Append(gcall, [name |-> "ReorderByVDim", before |-> nodes.data,
                             returned |-> TRUE])
  /\ UNCHANGED geom

CallReorderByNodes ==
  /\ Len(gcall) < MaxCalls /\ GeomRuns
  /\ nodes' = ReorderByNodes(nodes)
  /\ gcall' = Append(gcall, [name |-> "ReorderByNodes", before |-> nodes.data,
                             returned |-> TRUE])
  /\ UNCHANGED geom

\* the nodes of a chain of elements of numDofs dofs each, element e on the
\* dofs e .. e+numDofs-1, with a different value at every entry
NodesOf(ndofs, vdim, numDofs, ordering) ==
  [vdim |-> vdim, ndofs |-> ndofs, ordering |-> ordering, numDofs |-> numDofs,
   elementMap |-> [lid \in Idx(numDofs * (ndofs - numDofs + 1)) |->
                     (lid \div numDofs) + (lid % numDofs)],
   data |-> [k \in Idx(ndofs * vdim) |-> 10 * k + 1]]

InitGeom ==
  /\ \E ndofs \in 1..MaxNDofs, vdim \in 1..MaxVDim, ordering \in {"byNODES", "byVDIM"} :
       \E numDofs \in {1, 4} \cap 1..ndofs :
         nodes = NodesOf(ndofs, vdim, numDofs, ordering)
  /\ geom = NULL
  /\ gcall = << >>
  /\ epdofs = << >>
  /\ CallerIdle
  /\ FieldIdle
  /\ MatIdle
  /\ ParIdle
  /\ AccIdle
  /\ PmIdle
  /\ RetIdle /\ NormIdle /\ AsmIdle /\ JouleIdle

NextGeom ==
  \/ \E numQuad \in {1, 4} :
       GeometryGet(numQuad) /\ UNCHANGED <<dofsVars, fieldVars, matVars, parVars, accVars, pmVars, pret, normVars, asmVars, jouleVars>>
  \/ CallReorderByVDim /\ UNCHANGED <<dofsVars, fieldVars, matVars, parVars, accVars, pmVars, pret, normVars, asmVars, jouleVars>>
  \/ CallReorderByNodes /\ UNCHANGED <<dofsVars, fieldVars, matVars, parVars, accVars, pmVars, pret, normVars, asmVars, jouleVars>>

SpecGeom == InitGeom /\ [][NextGeom]_vars

\* the node data after the k-th call
DataAfter(k) == IF k = Len(gcall) THEN nodes.data ELSE gcall[k + 1].before

\* C29: ReorderByVDim followed by ReorderByNodes leaves the node data as it
\* was, for every ndofs and vdim, and Get(fes, ir) returns with the nodes
\* holding the values, in the order, they held on entry
C29_NodesRestored ==
  \A k \in 1..Len(gcall) :
    /\ gcall[k].name = "Get" => DataAfter(k) = gcall[k].before
    /\ (k < Len(gcall) /\ gcall[k].name = "ReorderByVDim"
          /\ gcall[k + 1].name = "ReorderByNodes") =>
         DataAfter(k + 1) = gcall[k].before

\* on nodes ordered byNODES with 2 components, on elements of 4 dofs,
\* ReorderByVDim and ReorderByNodes were called in a row and then Get, which
\* read the data in another order than it stands in the nodes and returned
C29_Witness ==
  /\ Len(gcall) = 3
  /\ gcall[1].name = "ReorderByVDim" /\ gcall[2].name = "ReorderByNodes"
  /\ gcall[3].name = "Get"
  /\ gcall[3].returned
  /\ nodes.ordering = "byNODES" /\ nodes.numDofs = 4 /\ nodes.vdim = 2
  /\ gcall[2].before # gcall[1].before
  /\ geom # NULL
  /\ \E m \in DOMAIN Deref(geom).meshNodes : Deref(geom).meshNodes[m] # nodes.data[m]


(***************************************************************************)
(* The Joule driver: its time loop.  jopt holds the options and the rank,  *)
(* jgf the grid functions (the data of field X after step n is kept as the *)
(* pair of X and n, the solver being outside the driver), jfiles the files *)
(* written with what was saved to each, jloop the variables of the loop.   *)
(* Times are counted in halves of a unit, so that dt/2 is whole.           *)
(***************************************************************************)
MaxFinal == 4

GridFunctions == {"T", "E", "B", "F", "P", "w"}

\* the names registered with the VisIt data collection, and the grid
\* function behind each
VisitFields == {"E", "B", "T", "w", "Phi", "F", "Eexact", "Texact"}

Registered(n) == IF n = "Phi" THEN "P" ELSE n

\* << t with the six significant digits of the default precision
FormatTime(t) == IF t < 1000000 THEN t ELSE ((t + 5) \div 10) * 10

\* basename_<t>_<X>.<myid>
FileName(basename, t, X, myid) ==
  [basename |-> basename, t |-> FormatTime(t), field |-> X, myid |-> myid]

\* ofstream ofs(name): the file exists and is empty, the stream is open
Open(files, name) ==
  [n \in DOMAIN files \cup {name} |-> IF n = name THEN << >> ELSE files[n]]

\* gf.Save(ofs): what is written to a closed stream is lost
Save(files, ofs, data) ==
  IF ofs.open THEN [files EXCEPT ![ofs.name] = Append(@, data)] ELSE files

\* the block under gfprint == 1
PrintGridFunctions(files, basename, t, myid, gf) ==
  LET name(X)   == FileName(basename, t, X, myid)
      opened(X) == [name |-> name(X), open |-> TRUE]
      closed(X) == [name |-> name(X), open |-> FALSE]
      mesh == Save(Open(files, name("mesh")), opened("mesh"), "mesh")
      T    == Save(Open(mesh, name("T")), opened("T"), gf["T"])
      E    == Save(Open(T, name("E")), opened("E"), gf["E"])
      B    == Save(Open(E, name("B")), opened("B"), gf["B"])
      F    == Save(Open(B, name("F")), closed("B"), gf["F"])
      P    == Save(Open(F, name("P")), closed("B"), gf["P"])
      w    == Save(Open(P, name("w")), opened("w"), gf["w"])
  IN  w

\* visit_dc.SetCycle(ti); visit_dc.SetTime(t); visit_dc.Save()
VisitSave(files, basename, ti, t, gf) ==
  LET name == [basename |-> basename, cycle |-> ti, field |-> "visit"]
  IN  Save(Open(files, name), [name |-> name, open |-> TRUE],
           [time |-> t, fields |-> [n \in VisitFields |-> gf[Registered(n)]]])

\* the grid functions after time step n
FieldsAfter(n) ==
  [X \in GridFunctions \cup {"Eexact", "Texact"} |-> [field |-> X, step |-> n]]

\* one turn of the time loop
TimeStep ==
  LET t    == jloop.t
      dt   == 2 * jopt.dt
      ti   == jloop.ti
      last == 2 * (t + dt) >= 2 * jopt.t_final - dt
      gf   == FieldsAfter(ti)
      tnew == t + dt
      printed == IF jopt.gfprint = 1
                 THEN PrintGridFunctions(jfiles, jopt.basename, tnew, jopt.myid, gf)
                 ELSE jfiles
  IN  /\ ~jloop.last_step
      /\ jgf' = gf
      /\ jfiles' = (IF last \/ ti % jopt.vis_steps = 0
                    THEN VisitSave(printed, jopt.basename, ti, tnew, gf) ELSE printed)
      /\ jloop' = [t |-> tnew, ti |-> ti + 1, last_step |-> last]
      /\ UNCHANGED jopt

InitJoule ==
  /\ jopt \in [gfprint : {0, 1}, myid : {0, 1}, dt : {1, 2}, t_final : {2 * k : k \in 1..MaxFinal},
               vis_steps : {1, 2}, basename : {"Joule"}]
  /\ jgf = FieldsAfter(0)
  /\ jfiles = VisitSave(<< >>, jopt.basename, 0, 0, FieldsAfter(0))
  /\ jloop = [t |-> 0, ti |-> 1, last_step |-> FALSE]
  /\ epdofs = << >>
  /\ CallerIdle
  /\ FieldIdle
  /\ MatIdle
  /\ ParIdle
  /\ AccIdle
  /\ PmIdle
  /\ RetIdle /\ NormIdle /\ AsmIdle /\ GeomIdle

NextJoule ==
  TimeStep /\ UNCHANGED <<dofsVars, fieldVars, matVars, parVars, accVars, pmVars, pret, normVars, asmVars, geomVars>>

SpecJoule == InitJoule /\ [][NextJoule]_vars

\* C30: with -print 1 every time step writes each of T, E, B, F, P and w to
\* its own file of the step and the rank: after the step each of the six
\* files holds the data of the field it is named after
C30_EachFieldItsFile ==
  (jopt.gfprint = 1 /\ jloop.ti > 1) =>
    \A X \in GridFunctions :
      LET name == FileName(jopt.basename, jloop.t, X, jopt.myid)
      IN  name \in DOMAIN jfiles /\ jfiles[name] = <<jgf[X]>>

====
